---- MODULE Spec2Model ----
(***************************************************************************)
(* A model of regclient's OCI image layout backend (scheme/ocidir), its    *)
(* manifest types (types/manifest, regclient manifest) and the registry    *)
(* manifest operations, written from the Go sources.                       *)
(*                                                                         *)
(* Part 1: the index of an OCI layout (index.json held in memory as a      *)
(*         v1.Index) and the pure functions indexCreate, indexGet and      *)
(*         indexSet that resolve and bind references in it.                *)
(* Part 2: the files of a layout (oci-layout, index.json) and the          *)
(*         functions valid, readIndex, writeIndex and refMod, run by       *)
(*         concurrent goroutines, one file system call per step.           *)
(* Part 3: manifests: the bytes of a manifest, its digest, the regclient   *)
(*         manifest that ManifestGet returns and the docker2Manifest and   *)
(*         docker2ManifestList that SetOrig populates.                     *)
(***************************************************************************)
EXTENDS Integers, Sequences, FiniteSets, TLC

\* ------------------------------------------------------------------------
\* Bounds of the model
\* ------------------------------------------------------------------------

\* longest index.Manifests list an index.json is loaded with
MaxLen == 3

\* ------------------------------------------------------------------------
\* Data: references and descriptors
\* ------------------------------------------------------------------------

\* const aRefName = "org.opencontainers.image.ref.name"
aRefName == "org.opencontainers.image.ref.name"

\* digests of manifests ("" is the empty ref.Ref.Digest field)
Digests == {"sha256:d1", "sha256:d2"}

\* tags ("" is the empty ref.Ref.Tag field)
Tags == {"v1", "latest"}

\* a descriptor's Annotations map as its set of <<key, value>> pairs,
\* restricted to the one key the layout reads: either the key aRefName is
\* absent (nil map or map without the key) or it is bound to a string
NoAnnotations == {}
Annotate(name) == {<<aRefName, name>>}
AnnotationSets == {NoAnnotations} \cup {Annotate(t) : t \in Tags}

\* types.Descriptor, as the two fields indexSet and indexGet inspect: Digest
\* and Annotations (MediaType, Size, URLs and Platform are copied with the
\* descriptor and never read)
Descriptors == [Digest : Digests, Annotations : AnnotationSets]

\* the zero value types.Descriptor{}
ZeroDescriptor == [Digest |-> "", Annotations |-> NoAnnotations]

\* ref.Ref{Tag, Digest}: a reference may carry a tag, a digest, both or
\* neither
Refs == [Tag : Tags \cup {""}, Digest : Digests \cup {""}]

\* im.Annotations[aRefName]: the pair (name, ok) of Go's two-valued map read
HasRefName(im) == \E kv \in im.Annotations : kv[1] = aRefName
RefName(im) ==
    IF HasRefName(im) THEN (CHOOSE kv \in im.Annotations : kv[1] = aRefName)[2] ELSE ""

\* every index.Manifests list of at most n rows
RECURSIVE SeqsUpTo(_, _)
SeqsUpTo(S, n) ==
    IF n = 0 THEN {<< >>}
    ELSE LET shorter == SeqsUpTo(S, n - 1)
         IN shorter \cup {Append(s, x) : s \in {t \in shorter : Len(t) = n - 1}, x \in S}

\* ------------------------------------------------------------------------
\* indexCreate, indexGet, indexSet
\* ------------------------------------------------------------------------

\* indexCreate: Manifests: []types.Descriptor{}
indexCreate == << >>

\* the loop of indexGet over index.Manifests by digest, from row i on
RECURSIVE GetByDigest(_, _, _)
GetByDigest(manifests, i, digest) ==
    IF i > Len(manifests) THEN [desc |-> ZeroDescriptor, err |-> "ErrNotFound"]
    ELSE IF manifests[i].Digest = digest THEN [desc |-> manifests[i], err |-> "nil"]
    ELSE GetByDigest(manifests, i + 1, digest)

\* the loop of indexGet over index.Manifests by ref-name annotation
RECURSIVE GetByTag(_, _, _)
GetByTag(manifests, i, tag) ==
    IF i > Len(manifests) THEN [desc |-> ZeroDescriptor, err |-> "ErrNotFound"]
    ELSE IF HasRefName(manifests[i]) /\ RefName(manifests[i]) = tag
         THEN [desc |-> manifests[i], err |-> "nil"]
    ELSE GetByTag(manifests, i + 1, tag)

\* a plausible slip: the tag is consulted before the digest
indexGetTagFirst(manifests, r) ==
    LET r1 == IF r.Digest = "" /\ r.Tag = "" THEN [r EXCEPT !.Tag = "latest"] ELSE r
    IN  IF r1.Tag # "" THEN GetByTag(manifests, 1, r1.Tag)
        ELSE IF r1.Digest # "" THEN GetByDigest(manifests, 1, r1.Digest)
        ELSE [desc |-> ZeroDescriptor, err |-> "ErrNotFound"]

\* func indexGet(index v1.Index, r ref.Ref) (types.Descriptor, error)
indexGet(manifests, r) ==
    LET r1 == IF r.Digest = "" /\ r.Tag = "" THEN [r EXCEPT !.Tag = "latest"] ELSE r
    IN  IF r1.Digest # "" THEN GetByDigest(manifests, 1, r1.Digest)
        ELSE IF r1.Tag # "" THEN GetByTag(manifests, 1, r1.Tag)
        ELSE [desc |-> ZeroDescriptor, err |-> "ErrNotFound"]

\* indexSet lines 213-218: the tag of the reference is written into the
\* descriptor's annotations
SetRefName(r, d) ==
    IF r.Tag # "" THEN [d EXCEPT !.Annotations = Annotate(r.Tag)] ELSE d

\* a plausible slip: rows are compared by digest alone
IsExistingByDigest(im, r, d) == im.Digest = d.Digest

\* indexSet lines 225-230 and 239-244: the test both loops apply to a row.
\* The annotation of the row is read only when the reference has a tag.
IsExisting(im, r, d) ==
    LET ok   == r.Tag # "" /\ HasRefName(im)
        name == IF ok THEN RefName(im) ELSE ""
    IN  (im.Digest = d.Digest /\ ~ok) \/ (ok /\ name = r.Tag)

\* indexSet lines 222-235: the first row that is replaced, 0 when none
\* (the code's pos = -1)
RECURSIVE SearchExisting(_, _, _, _)
SearchExisting(manifests, i, r, d) ==
    IF i > Len(manifests) THEN 0
    ELSE IF IsExisting(manifests[i], r, d) THEN i
    ELSE SearchExisting(manifests, i + 1, r, d)

\* append(index.Manifests[:i], index.Manifests[i+1:]...)
RemoveAt(manifests, i) ==
    SubSeq(manifests, 1, i - 1) \o SubSeq(manifests, i + 1, Len(manifests))

\* a plausible slip: no duplicate row is removed after the replacement
KeepDups(manifests, i, pos, r, d) == manifests

\* indexSet lines 238-247: from the last row down to pos+1, matching rows
\* are removed
RECURSIVE RemoveDups(_, _, _, _, _)
RemoveDups(manifests, i, pos, r, d) ==
    IF i <= pos THEN manifests
    ELSE IF IsExisting(manifests[i], r, d)
         THEN RemoveDups(RemoveAt(manifests, i), i - 1, pos, r, d)
    ELSE RemoveDups(manifests, i - 1, pos, r, d)

\* a plausible slip: the descriptor is always appended
indexSetAppend(manifests, r, d) == Append(manifests, SetRefName(r, d))

\* func indexSet(index *v1.Index, r ref.Ref, d types.Descriptor) error:
\* the value of index.Manifests when it returns
indexSet(manifests, r, d) ==
    LET d1  == SetRefName(r, d)
        pos == SearchExisting(manifests, 1, r, d1)
    IN  IF pos > 0
        THEN RemoveDups([manifests EXCEPT ![pos] = d1], Len(manifests), pos, r, d1)
        ELSE Append(manifests, d1)

\* ------------------------------------------------------------------------
\* Files of a layout: contents, json.Marshal and json.Unmarshal
\* ------------------------------------------------------------------------

\* The bytes of a file are a sequence of tokens; the empty sequence is a
\* file of zero bytes (what fs.Create leaves behind).
EmptyBytes == << >>
NotJSON == <<"not json">>
EmptyObject == <<"{}">>

\* json.Marshal(v1.ImageLayout{Version: v})
MarshalLayout(v) == <<"{\"imageLayoutVersion\":\"", v, "\"}">>

\* json.Unmarshal(lb, &layout): the error and the layout.Version it leaves;
\* an object without the key leaves the zero value, zero bytes and text
\* that is not JSON are errors
UnmarshalLayout(lb) ==
    IF Len(lb) = 3 THEN [err |-> "nil", Version |-> lb[2]]
    ELSE IF lb = EmptyObject THEN [err |-> "nil", Version |-> ""]
    ELSE [err |-> "json", Version |-> ""]

\* json.Marshal(i) of a v1.Index with the rows manifests
MarshalIndex(manifests) == <<"{\"schemaVersion\":2,\"manifests\":", manifests, "}">>

\* json.Unmarshal(ib, &index): the error and index.Manifests
UnmarshalIndex(ib) ==
    IF Len(ib) = 3 THEN [err |-> "nil", index |-> ib[2]]
    ELSE IF ib = EmptyObject THEN [err |-> "nil", index |-> << >>]
    ELSE [err |-> "json", index |-> << >>]

\* a path of the file system: nothing there, a directory (fs.Open succeeds,
\* io.ReadAll and fs.Create fail), or a regular file with its bytes
NoFile == [kind |-> "none", data |-> EmptyBytes]
Directory == [kind |-> "dir", data |-> EmptyBytes]
File(data) == [kind |-> "file", data |-> data]

\* reqVer := "1.0.0" in valid, Version: "1.0.0" in writeIndex
reqVer == "1.0.0"

\* a slip: the version read from oci-layout is not compared with reqVer
validReadAnyVersion(f) ==
    IF f.kind = "dir" THEN "oci-layout cannot be read"
    ELSE IF UnmarshalLayout(f.data).err # "nil" THEN "oci-layout cannot be parsed"
    ELSE "nil"

\* valid, lines 154-157: fs.Open of oci-layout
validOpen(f) == IF f.kind = "none" THEN "oci-layout cannot be open" ELSE "nil"

\* valid, lines 159-170: io.ReadAll of the open file, json.Unmarshal and the
\* version test
validRead(f) ==
    IF f.kind = "dir" THEN "oci-layout cannot be read"
    ELSE LET layout == UnmarshalLayout(f.data)
         IN  IF layout.err # "nil" THEN "oci-layout cannot be parsed"
             ELSE IF layout.Version # reqVer THEN "unsupported oci layout version"
             ELSE "nil"

\* the errors valid returns: the layout is invalid
InvalidLayout == {"oci-layout cannot be open", "oci-layout cannot be read",
                  "oci-layout cannot be parsed", "unsupported oci layout version"}

\* readIndex, lines 98-101: fs.Open of index.json
indexOpen(f) == IF f.kind = "none" THEN "index.json cannot be open" ELSE "nil"

\* readIndex, lines 103-111: io.ReadAll and json.Unmarshal; the index
\* returned with an error is the zero v1.Index{}
indexRead(f) ==
    IF f.kind = "dir" THEN [err |-> "index.json cannot be read", index |-> << >>]
    ELSE LET parsed == UnmarshalIndex(f.data)
         IN  IF parsed.err # "nil"
             THEN [err |-> "index.json cannot be parsed", index |-> << >>]
             ELSE [err |-> "nil", index |-> parsed.index]

\* fs.Create(path): fails on a directory, else leaves a file of zero bytes
CreateErr(f) == f.kind = "dir"

\* ------------------------------------------------------------------------
\* Manifests: JSON bytes, digests, MarshalJSON, SetOrig, ManifestGet
\* ------------------------------------------------------------------------

MediaTypeDocker2Manifest == "application/vnd.docker.distribution.manifest.v2+json"
MediaTypeDocker2ManifestList == "application/vnd.docker.distribution.manifest.list.v2+json"
MediaTypeOCI1Manifest == "application/vnd.oci.image.manifest.v1+json"
MediaTypeOCI1ManifestList == "application/vnd.oci.image.index.v1+json"

\* A JSON document of a manifest: the struct it has the keys of (an image
\* manifest or a manifest list) and the values of the keys; a key that is
\* absent has the zero value.
ZeroDoc == [shape |-> "", mediaType |-> "", config |-> ZeroDescriptor,
            layers |-> << >>, manifests |-> << >>]

\* The bytes of a body: zero bytes, text that is not JSON, or a JSON
\* document with its formatting: pad 0 is the compact form json.Marshal
\* writes, pad 1 the same document with insignificant white space.
EmptyBody == [text |-> "empty", pad |-> 0, doc |-> ZeroDoc]
GarbageBody == [text |-> "garbage", pad |-> 0, doc |-> ZeroDoc]
JSONBody(doc, pad) == [text |-> "json", pad |-> pad, doc |-> doc]

\* len(b)
DocLen(doc) ==
    20 + (IF doc.mediaType = "" THEN 0 ELSE 60)
       + 150 * ((IF doc.shape = "image" THEN 1 ELSE 0) + Len(doc.layers) + Len(doc.manifests))
BodyLen(b) ==
    IF b.text = "empty" THEN 0
    ELSE IF b.text = "garbage" THEN 8
    ELSE DocLen(b.doc) + 16 * b.pad

\* digest.FromBytes(b), digester.Digest(): sha256 names the bytes it was
\* computed from, and different bytes have different digests
FromBytes(b) == [alg |-> "sha256", of |-> b]
NoDigest == [alg |-> "", of |-> EmptyBody]

\* the structs json.Marshal and json.Unmarshal work on
\* schema2.Manifest{Versioned{MediaType}, Config, Layers}
ZeroManifest == [MediaType |-> "", Config |-> ZeroDescriptor, Layers |-> << >>]
\* schema2.ManifestList{Versioned{MediaType}, Manifests}
ZeroManifestList == [MediaType |-> "", Manifests |-> << >>]
\* ociv1.Manifest{Config, Layers} and ociv1.Index{Manifests}
ZeroOCIManifest == [Config |-> ZeroDescriptor, Layers |-> << >>]
ZeroOCIIndex == [Manifests |-> << >>]

\* json.Marshal of each struct: the compact document with the struct's keys
MarshalManifest(v) ==
    JSONBody([ZeroDoc EXCEPT !.shape = "image", !.mediaType = v.MediaType,
                             !.config = v.Config, !.layers = v.Layers], 0)
MarshalManifestList(v) ==
    JSONBody([ZeroDoc EXCEPT !.shape = "list", !.mediaType = v.MediaType,
                             !.manifests = v.Manifests], 0)
MarshalOCIManifest(v) ==
    JSONBody([ZeroDoc EXCEPT !.shape = "image", !.config = v.Config, !.layers = v.Layers], 0)
MarshalOCIIndex(v) ==
    JSONBody([ZeroDoc EXCEPT !.shape = "list", !.manifests = v.Manifests], 0)

\* json.Unmarshal(b, &v): fails on bytes that are not JSON; keys the struct
\* does not have are skipped, fields without a key keep the zero value
UnmarshalErr(b) == IF b.text = "json" THEN "nil" ELSE "json"
UnmarshalManifest(b) ==
    [MediaType |-> b.doc.mediaType, Config |-> b.doc.config, Layers |-> b.doc.layers]
UnmarshalManifestList(b) ==
    [MediaType |-> b.doc.mediaType, Manifests |-> b.doc.manifests]
UnmarshalOCIManifest(b) == [Config |-> b.doc.config, Layers |-> b.doc.layers]
UnmarshalOCIIndex(b) == [Manifests |-> b.doc.manifests]

\* type manifest struct of package regclient, zero value
ZeroRegManifest ==
    [type |-> "regclient.manifest", digest |-> NoDigest, mt |-> "", manifSet |-> FALSE,
     origByte |-> EmptyBody, dockerM |-> ZeroManifest, dockerML |-> ZeroManifestList,
     ociM |-> ZeroOCIManifest, ociML |-> ZeroOCIIndex]

\* types.Descriptor{MediaType, Digest, Size} of a manifest, zero value
ZeroDesc == [MediaType |-> "", Digest |-> NoDigest, Size |-> 0]

\* type docker2Manifest struct{common; schema2.Manifest}, zero value
ZeroDocker2Manifest ==
    [type |-> "docker2Manifest", manifSet |-> FALSE, rawBody |-> EmptyBody,
     desc |-> ZeroDesc, Manifest |-> ZeroManifest]

\* type docker2ManifestList struct{common; schema2.ManifestList}, zero value
ZeroDocker2ManifestList ==
    [type |-> "docker2ManifestList", manifSet |-> FALSE, rawBody |-> EmptyBody,
     desc |-> ZeroDesc, ManifestList |-> ZeroManifestList]

\* a slip: the structured fields are serialized again although raw bytes are
\* held
regMarshalJSONReserialize(m) ==
    IF ~m.manifSet THEN [bytes |-> EmptyBody, err |-> "ErrUnavailable"]
    ELSE IF m.mt = MediaTypeDocker2Manifest
         THEN [bytes |-> MarshalManifest(m.dockerM), err |-> "nil"]
    ELSE IF m.mt = MediaTypeDocker2ManifestList
         THEN [bytes |-> MarshalManifestList(m.dockerML), err |-> "nil"]
    ELSE IF m.mt = MediaTypeOCI1Manifest
         THEN [bytes |-> MarshalOCIManifest(m.ociM), err |-> "nil"]
    ELSE IF m.mt = MediaTypeOCI1ManifestList
         THEN [bytes |-> MarshalOCIIndex(m.ociML), err |-> "nil"]
    ELSE [bytes |-> EmptyBody, err |-> "ErrUnsupportedMediaType"]

\* func (m *manifest) MarshalJSON() ([]byte, error)
regMarshalJSON(m) ==
    IF ~m.manifSet THEN [bytes |-> EmptyBody, err |-> "ErrUnavailable"]
    ELSE IF BodyLen(m.origByte) > 0 THEN [bytes |-> m.origByte, err |-> "nil"]
    ELSE IF m.mt = MediaTypeDocker2Manifest
         THEN [bytes |-> MarshalManifest(m.dockerM), err |-> "nil"]
    ELSE IF m.mt = MediaTypeDocker2ManifestList
         THEN [bytes |-> MarshalManifestList(m.dockerML), err |-> "nil"]
    ELSE IF m.mt = MediaTypeOCI1Manifest
         THEN [bytes |-> MarshalOCIManifest(m.ociM), err |-> "nil"]
    ELSE IF m.mt = MediaTypeOCI1ManifestList
         THEN [bytes |-> MarshalOCIIndex(m.ociML), err |-> "nil"]
    ELSE [bytes |-> EmptyBody, err |-> "ErrUnsupportedMediaType"]

\* func (m *docker2Manifest) MarshalJSON() ([]byte, error)
docker2ManifestMarshalJSON(m) ==
    IF ~m.manifSet THEN [bytes |-> EmptyBody, err |-> "ErrUnavailable"]
    ELSE IF BodyLen(m.rawBody) > 0 THEN [bytes |-> m.rawBody, err |-> "nil"]
    ELSE [bytes |-> MarshalManifest(m.Manifest), err |-> "nil"]

\* func (m *docker2ManifestList) MarshalJSON() ([]byte, error)
docker2ManifestListMarshalJSON(m) ==
    IF ~m.manifSet THEN [bytes |-> EmptyBody, err |-> "ErrUnavailable"]
    ELSE IF BodyLen(m.rawBody) > 0 THEN [bytes |-> m.rawBody, err |-> "nil"]
    ELSE [bytes |-> MarshalManifestList(m.ManifestList), err |-> "nil"]

\* MarshalJSON of whichever manifest type m is
MarshalJSON(m) ==
    IF m.type = "regclient.manifest" THEN regMarshalJSON(m)
    ELSE IF m.type = "docker2Manifest" THEN docker2ManifestMarshalJSON(m)
    ELSE docker2ManifestListMarshalJSON(m)

\* a slip: the manifest is reset before the type of origIn is examined
docker2ManifestSetOrigResetFirst(m, origIn) ==
    IF origIn.type # "schema2.Manifest"
    THEN [m |-> [m EXCEPT !.manifSet = FALSE, !.rawBody = EmptyBody],
          err |-> "ErrUnsupportedMediaType"]
    ELSE LET orig == [origIn.value EXCEPT !.MediaType = MediaTypeDocker2Manifest]
             mj   == MarshalManifest(orig)
         IN  [m |-> [m EXCEPT !.manifSet = TRUE, !.rawBody = mj,
                              !.desc = [MediaType |-> MediaTypeDocker2Manifest,
                                        Digest |-> FromBytes(mj),
                                        Size |-> BodyLen(mj)],
                              !.Manifest = orig],
              err |-> "nil"]

\* func (m *docker2Manifest) SetOrig(origIn interface{}) error: the manifest
\* it leaves and the error (json.Marshal of these structs does not fail)
docker2ManifestSetOrig(m, origIn) ==
    IF origIn.type # "schema2.Manifest" THEN [m |-> m, err |-> "ErrUnsupportedMediaType"]
    ELSE LET orig == IF origIn.value.MediaType # MediaTypeDocker2Manifest
                     THEN [origIn.value EXCEPT !.MediaType = MediaTypeDocker2Manifest]
                     ELSE origIn.value
             mj   == MarshalManifest(orig)
         IN  [m |-> [m EXCEPT !.manifSet = TRUE, !.rawBody = mj,
                              !.desc = [MediaType |-> MediaTypeDocker2Manifest,
                                        Digest |-> FromBytes(mj),
                                        Size |-> BodyLen(mj)],
                              !.Manifest = orig],
              err |-> "nil"]

\* func (m *docker2ManifestList) SetOrig(origIn interface{}) error
docker2ManifestListSetOrig(m, origIn) ==
    IF origIn.type # "schema2.ManifestList" THEN [m |-> m, err |-> "ErrUnsupportedMediaType"]
    ELSE LET orig == IF origIn.value.MediaType # MediaTypeDocker2ManifestList
                     THEN [origIn.value EXCEPT !.MediaType = MediaTypeDocker2ManifestList]
                     ELSE origIn.value
             mj   == MarshalManifestList(orig)
         IN  [m |-> [m EXCEPT !.manifSet = TRUE, !.rawBody = mj,
                              !.desc = [MediaType |-> MediaTypeDocker2ManifestList,
                                        Digest |-> FromBytes(mj),
                                        Size |-> BodyLen(mj)],
                              !.ManifestList = orig],
              err |-> "nil"]

\* ManifestGet lines 331-348: the body is parsed into the field of the media
\* type; the error is "nil", "json" or "Unknown manifest media type"
ParseByMediaType(m) ==
    IF m.mt = MediaTypeDocker2Manifest
    THEN [m |-> [m EXCEPT !.dockerM = UnmarshalManifest(m.origByte)],
          err |-> UnmarshalErr(m.origByte)]
    ELSE IF m.mt = MediaTypeDocker2ManifestList
    THEN [m |-> [m EXCEPT !.dockerML = UnmarshalManifestList(m.origByte)],
          err |-> UnmarshalErr(m.origByte)]
    ELSE IF m.mt = MediaTypeOCI1Manifest
    THEN [m |-> [m EXCEPT !.ociM = UnmarshalOCIManifest(m.origByte)],
          err |-> UnmarshalErr(m.origByte)]
    ELSE IF m.mt = MediaTypeOCI1ManifestList
    THEN [m |-> [m EXCEPT !.ociML = UnmarshalOCIIndex(m.origByte)],
          err |-> UnmarshalErr(m.origByte)]
    ELSE [m |-> m, err |-> "Unknown manifest media type"]

\* a slip: the digest the registry sent is stored instead of the computed one
ReadBodyTrustHeader(resp) ==
    [ZeroRegManifest EXCEPT !.origByte = resp.body, !.digest = resp.dockerContentDigest]

\* ManifestGet lines 311-329: the body is read through the digester; a
\* Docker-Content-Digest header that differs is logged, and nothing else
ReadBody(resp) ==
    [ZeroRegManifest EXCEPT !.origByte = resp.body, !.digest = FromBytes(resp.body)]

\* func (rc *regClient) ManifestGet(ctx, ref) (Manifest, error), from
\* rty.DoRequest on: the manifest returned (the zero manifest stands for
\* nil) and the error
ManifestGetResponse(resp) ==
    IF resp.transport = "request failed"
    THEN [m |-> ZeroRegManifest, err |-> "DoRequest"]
    ELSE IF resp.status # 200
    THEN [m |-> ZeroRegManifest, err |-> "Unexpected http response code"]
    ELSE IF resp.transport = "read failed"
    THEN [m |-> ZeroRegManifest, err |-> "ReadAll"]
    ELSE LET m1     == [ReadBody(resp) EXCEPT !.mt = resp.contentType]
             parsed == ParseByMediaType(m1)
         IN  IF parsed.err # "nil" THEN [m |-> ZeroRegManifest, err |-> parsed.err]
             ELSE [m |-> [parsed.m EXCEPT !.manifSet = TRUE], err |-> "nil"]

\* ------------------------------------------------------------------------
\* Manifests: platforms and accessors
\* ------------------------------------------------------------------------

\* ociv1.Platform{OS, Architecture}
Platform(os, arch) == [OS |-> os, Architecture |-> arch]
ZeroPlatform == Platform("", "")
Platforms == {Platform("linux", "amd64"), Platform("linux", "x86_64"),
              Platform("linux", "arm64")}

\* a pointer to a platform: << >> is nil
NilPlatform == << >>
PlatformPtr(pl) == <<pl>>

\* an entry of a manifest list or an index: a descriptor with its platform
Entry(digest, platform) ==
    [Digest |-> digest, Annotations |-> NoAnnotations, Platform |-> platform]

\* platforms.NewMatcher(*p).Match(q): both sides are normalized (x86_64 is
\* another name of amd64, aarch64 of arm64) and then compared
Normalize(pl) ==
    [pl EXCEPT !.Architecture = IF pl.Architecture = "x86_64" THEN "amd64"
                                ELSE IF pl.Architecture = "aarch64" THEN "arm64"
                                ELSE pl.Architecture]
Match(p, q) == Normalize(p) = Normalize(q)

\* what an accessor returns; the fields it does not return are zero
NoAcc == [err |-> "nil", digest |-> "", descs |-> << >>, platforms |-> << >>]
AccErr(err) == [NoAcc EXCEPT !.err = err]

\* d2oDescriptor, d2oDescriptorList: a schema2 descriptor as an OCI
\* descriptor, with its digest
d2oDescriptor(d) == [Digest |-> d.Digest, Annotations |-> NoAnnotations]
RECURSIVE d2oDescriptorList(_)
d2oDescriptorList(dl) ==
    IF dl = << >> THEN << >>
    ELSE <<d2oDescriptor(Head(dl))>> \o d2oDescriptorList(Tail(dl))

\* dlp2Platform(d.Platform): the platform of an entry of a Docker manifest
\* list is a struct, zero when the document has none; the result is never nil
dlp2Platform(d) ==
    IF d.Platform = NilPlatform THEN PlatformPtr(ZeroPlatform) ELSE d.Platform
\* dl2oDescriptor(d): the entry as an OCI descriptor
dl2oDescriptor(d) == Entry(d.Digest, dlp2Platform(d))

\* a slip: the media type is not examined
regGetConfigDigestAnyType(m) ==
    IF m.mt = MediaTypeOCI1Manifest THEN [NoAcc EXCEPT !.digest = m.ociM.Config.Digest]
    ELSE [NoAcc EXCEPT !.digest = m.dockerM.Config.Digest]

\* func (m *manifest) GetConfigDigest() (digest.Digest, error)
regGetConfigDigest(m) ==
    IF m.mt = MediaTypeDocker2Manifest THEN [NoAcc EXCEPT !.digest = m.dockerM.Config.Digest]
    ELSE IF m.mt = MediaTypeOCI1Manifest THEN [NoAcc EXCEPT !.digest = m.ociM.Config.Digest]
    ELSE AccErr("ErrUnsupportedMediaType")

\* func (m *manifest) GetLayers() ([]ociv1.Descriptor, error)
regGetLayers(m) ==
    IF m.mt = MediaTypeDocker2Manifest
    THEN [NoAcc EXCEPT !.descs = d2oDescriptorList(m.dockerM.Layers)]
    ELSE IF m.mt = MediaTypeOCI1Manifest THEN [NoAcc EXCEPT !.descs = m.ociM.Layers]
    ELSE AccErr("ErrUnsupportedMediaType")

\* GetPlatformDesc, case MediaTypeDocker2ManifestList: the loop from entry i
RECURSIVE MatchDocker(_, _, _)
MatchDocker(manifests, i, p) ==
    IF i > Len(manifests) THEN AccErr("ErrNotFound")
    ELSE IF Match(p, dlp2Platform(manifests[i])[1])
         THEN [NoAcc EXCEPT !.descs = <<dl2oDescriptor(manifests[i])>>]
    ELSE MatchDocker(manifests, i + 1, p)

\* GetPlatformDesc, case MediaTypeOCI1ManifestList: the loop from entry i;
\* *d.Platform of an entry without a platform is a nil pointer dereference
RECURSIVE MatchOCI(_, _, _)
MatchOCI(manifests, i, p) ==
    IF i > Len(manifests) THEN AccErr("ErrNotFound")
    ELSE IF manifests[i].Platform = NilPlatform THEN AccErr("panic: nil pointer dereference")
    ELSE IF Match(p, manifests[i].Platform[1])
         THEN [NoAcc EXCEPT !.descs = <<manifests[i]>>]
    ELSE MatchOCI(manifests, i + 1, p)

\* func (m *manifest) GetPlatformDesc(p *ociv1.Platform) (*ociv1.Descriptor, error)
regGetPlatformDesc(m, p) ==
    IF m.mt = MediaTypeDocker2ManifestList THEN MatchDocker(m.dockerML.Manifests, 1, p)
    ELSE IF m.mt = MediaTypeOCI1ManifestList THEN MatchOCI(m.ociML.Manifests, 1, p)
    ELSE AccErr("ErrUnsupportedMediaType")

\* the platforms of the entries, as GetPlatformList collects them
RECURSIVE PlatformsDocker(_)
PlatformsDocker(manifests) ==
    IF manifests = << >> THEN << >>
    ELSE <<dlp2Platform(Head(manifests))>> \o PlatformsDocker(Tail(manifests))
RECURSIVE PlatformsOCI(_)
PlatformsOCI(manifests) ==
    IF manifests = << >> THEN << >>
    ELSE <<Head(manifests).Platform>> \o PlatformsOCI(Tail(manifests))

\* func (m *manifest) GetPlatformList() ([]*ociv1.Platform, error)
regGetPlatformList(m) ==
    IF ~m.manifSet THEN AccErr("ErrUnavailable")
    ELSE IF m.mt = MediaTypeDocker2ManifestList
         THEN [NoAcc EXCEPT !.platforms = PlatformsDocker(m.dockerML.Manifests)]
    ELSE IF m.mt = MediaTypeOCI1ManifestList
         THEN [NoAcc EXCEPT !.platforms = PlatformsOCI(m.ociML.Manifests)]
    ELSE AccErr("ErrUnsupportedMediaType")

\* getPlatformDesc(p, dl): the first entry of dl whose platform is p
RECURSIVE getPlatformDesc(_, _, _)
getPlatformDesc(p, dl, i) ==
    IF i > Len(dl) THEN AccErr("ErrNotFound")
    ELSE IF dl[i].Platform # NilPlatform /\ dl[i].Platform[1] = p
         THEN [NoAcc EXCEPT !.descs = <<dl[i]>>]
    ELSE getPlatformDesc(p, dl, i + 1)

\* getPlatformList(dl): the platforms of the entries of dl
getPlatformList(dl) == [NoAcc EXCEPT !.platforms = PlatformsOCI(dl)]

\* the accessors of docker2Manifest
docker2ManifestAccessor(m, name, p) ==
    IF name = "GetConfig" THEN [NoAcc EXCEPT !.descs = <<m.Manifest.Config>>]
    ELSE IF name = "GetConfigDigest" THEN [NoAcc EXCEPT !.digest = m.Manifest.Config.Digest]
    ELSE IF name = "GetLayers" THEN [NoAcc EXCEPT !.descs = m.Manifest.Layers]
    ELSE AccErr("ErrUnsupportedMediaType")

\* the accessors of docker2ManifestList
docker2ManifestListAccessor(m, name, p) ==
    IF name = "GetManifestList" THEN [NoAcc EXCEPT !.descs = m.ManifestList.Manifests]
    ELSE IF name = "GetPlatformDesc" THEN getPlatformDesc(p, m.ManifestList.Manifests, 1)
    ELSE IF name = "GetPlatformList" THEN getPlatformList(m.ManifestList.Manifests)
    ELSE AccErr("ErrUnsupportedMediaType")

\* the accessors of manifest (package regclient)
regAccessor(m, name, p) ==
    IF name = "GetConfigDigest" THEN regGetConfigDigest(m)
    ELSE IF name = "GetLayers" THEN regGetLayers(m)
    ELSE IF name = "GetPlatformDesc" THEN regGetPlatformDesc(m, p)
    ELSE regGetPlatformList(m)

\* the methods each type has
Methods(type) ==
    IF type = "regclient.manifest"
    THEN {"GetConfigDigest", "GetLayers", "GetPlatformDesc", "GetPlatformList"}
    ELSE {"GetConfig", "GetConfigDigest", "GetLayers", "GetManifestList",
          "GetPlatformDesc", "GetPlatformList"}

\* m.<name>(p) on whichever manifest type m is
Accessor(m, name, p) ==
    IF m.type = "regclient.manifest" THEN regAccessor(m, name, p)
    ELSE IF m.type = "docker2Manifest" THEN docker2ManifestAccessor(m, name, p)
    ELSE docker2ManifestListAccessor(m, name, p)

\* ------------------------------------------------------------------------
\* Requests to a registry
\* ------------------------------------------------------------------------

\* Ref{Repository, Tag, Digest} of package regclient
Repositories == {"proj/repo", "proj/private"}
RegRefs == [Repository : Repositories, Tag : Tags \cup {""}, Digest : Digests \cup {""}]
NoRegRef == [Repository |-> "", Tag |-> "", Digest |-> ""]

\* "/v2/" + ref.Repository + "/manifests/" + id, as its segments
ManifestPath(repository, id) == <<"v2", repository, "manifests", id>>

\* the Accept header of manifest requests
AcceptManifests ==
    {MediaTypeDocker2Manifest, MediaTypeDocker2ManifestList, MediaTypeOCI1Manifest,
     MediaTypeOCI1ManifestList}

\* a request handed to rty.DoRequest
Request(method, path, accept) == [method |-> method, path |-> path, accept |-> accept]

\* what rty.DoRequest gives back: an error, or a response with a status
NoAnswer == [transport |-> "none", status |-> 0]
DeleteAnswers ==
    {[transport |-> "request failed", status |-> 0]}
        \cup [transport : {"ok"}, status : {200, 202, 404, 405}]

\* a slip: the tag is used when the reference has no digest, as ManifestGet
\* does
ManifestDeleteTagOrDigest(ref, answer) ==
    LET id == IF ref.Digest # "" THEN ref.Digest ELSE ref.Tag
    IN  IF id = "" THEN [reqs |-> << >>, err |-> "ErrMissingDigest"]
        ELSE [reqs |-> <<Request("DELETE", ManifestPath(ref.Repository, id), AcceptManifests)>>,
              err |-> IF answer.transport # "ok" THEN "DoRequest"
                      ELSE IF answer.status # 202
                           THEN "Unexpected status code on manifest delete"
                      ELSE "nil"]

\* func (rc *regClient) ManifestDelete(ctx, ref) error: the requests handed
\* to rty.DoRequest and the error returned
ManifestDelete(ref, answer) ==
    IF ref.Digest = "" THEN [reqs |-> << >>, err |-> "ErrMissingDigest"]
    ELSE [reqs |-> <<Request("DELETE", ManifestPath(ref.Repository, ref.Digest),
                             AcceptManifests)>>,
          err |-> IF answer.transport # "ok" THEN "DoRequest"
                  ELSE IF answer.status # 202
                       THEN "Unexpected status code on manifest delete"
                  ELSE "nil"]

\* a slip: the tag comes first, as in ManifestPut
TagOrDigestTagFirst(ref) == IF ref.Tag # "" THEN ref.Tag ELSE ref.Digest

\* tagOrDigest of ManifestGet and ManifestHead: the digest when the reference
\* has one, else the tag, else nothing
TagOrDigest(ref) == IF ref.Digest # "" THEN ref.Digest ELSE ref.Tag

\* what a call that asks for a manifest returns, with the requests it handed
\* to rty.DoRequest; the zero manifest stands for nil
NoManifest(reqs, err) == [reqs |-> reqs, m |-> ZeroRegManifest, err |-> err]

\* func (rc *regClient) ManifestGet(ctx, ref) (Manifest, error)
ManifestGet(ref, resp) ==
    IF TagOrDigest(ref) = "" THEN NoManifest(<< >>, "ErrMissingTagOrDigest")
    ELSE LET got == ManifestGetResponse(resp)
         IN  [reqs |-> <<Request("GET", ManifestPath(ref.Repository, TagOrDigest(ref)),
                                 AcceptManifests)>>,
              m |-> got.m, err |-> got.err]

\* a slip: the manifest counts as populated, as the one ManifestGet returns
ManifestHeadPopulated(ref, resp) ==
    IF TagOrDigest(ref) = "" THEN NoManifest(<< >>, "ErrMissingTagOrDigest")
    ELSE LET reqs == <<Request("HEAD", ManifestPath(ref.Repository, TagOrDigest(ref)),
                               AcceptManifests)>>
         IN  IF resp.transport # "ok" THEN NoManifest(reqs, "DoRequest")
             ELSE IF resp.status # 200 THEN NoManifest(reqs, "Unexpected http response code")
             ELSE IF resp.dockerContentDigest = NoDigest THEN NoManifest(reqs, "digest.Parse")
             ELSE [reqs |-> reqs,
                   m |-> [ZeroRegManifest EXCEPT !.mt = resp.contentType,
                                                 !.digest = resp.dockerContentDigest,
                                                 !.manifSet = TRUE],
                   err |-> "nil"]

\* func (rc *regClient) ManifestHead(ctx, ref) (Manifest, error): the media
\* type and the digest are taken from the headers of the answer; digest.Parse
\* fails on a header that is not there
ManifestHead(ref, resp) ==
    IF TagOrDigest(ref) = "" THEN NoManifest(<< >>, "ErrMissingTagOrDigest")
    ELSE LET reqs == <<Request("HEAD", ManifestPath(ref.Repository, TagOrDigest(ref)),
                               AcceptManifests)>>
         IN  IF resp.transport # "ok" THEN NoManifest(reqs, "DoRequest")
             ELSE IF resp.status # 200 THEN NoManifest(reqs, "Unexpected http response code")
             ELSE IF resp.dockerContentDigest = NoDigest THEN NoManifest(reqs, "digest.Parse")
             ELSE [reqs |-> reqs,
                   m |-> [ZeroRegManifest EXCEPT !.mt = resp.contentType,
                                                 !.digest = resp.dockerContentDigest],
                   err |-> "nil"]

\* m.GetMediaType()
MediaTypeOf(m) == IF m.type = "regclient.manifest" THEN m.mt ELSE m.desc.MediaType

\* the PUT of a manifest: its Content-Type and its body
PutRequest(path, contentType, body) ==
    [method |-> "PUT", path |-> path, contentType |-> contentType, body |-> body]

\* what the registry answers to a PUT
PutAnswers ==
    {[transport |-> "request failed", status |-> 0]}
        \cup [transport : {"ok"}, status : {200, 201, 404, 500}]

\* func (rc *regClient) ManifestPut(ctx, ref, m) error: the path ends in the
\* tag when the reference has one, else in the digest; the requests handed to
\* rty.DoRequest and the error returned
ManifestPut(ref, m, answer) ==
    LET id == IF ref.Tag # "" THEN ref.Tag ELSE ref.Digest
        mj == MarshalJSON(m)
    IN  IF id = "" THEN [reqs |-> << >>, err |-> "ErrMissingTag"]
        ELSE IF mj.err # "nil" THEN [reqs |-> << >>, err |-> mj.err]
        ELSE [reqs |-> <<PutRequest(ManifestPath(ref.Repository, id), MediaTypeOf(m),
                                    mj.bytes)>>,
              err |-> IF answer.transport # "ok" THEN "Error calling manifest put request"
                      ELSE IF answer.status < 200 \/ answer.status > 299
                           THEN "Unexpected status code on manifest put"
                      ELSE "nil"]

\* ------------------------------------------------------------------------
\* Blobs: a registry that answers from request/response entries
\* ------------------------------------------------------------------------

\* the longest blob, the most bytes one Read hands over, and the retries of
\* one request after its first attempt
MaxBlobLen == 4
BufLen == 2
MaxRetries == 2

\* newRandomBlob(blobLen, seed): blobLen bytes, each told from the others by
\* its value, so that a byte read twice or left out shows
newRandomBlob(blobLen) == [i \in 1..blobLen |-> i]

\* the other blob of the tests, blob1: as long, and no byte of it is in blob2
newRandomBlob1(blobLen) == [i \in 1..blobLen |-> blobLen + i]

\* dMissing := digest.FromBytes([]byte("missing")): the digest of bytes that
\* are neither blob
dMissing == FromBytes(<<0>>)

\* b[lo:hi] of Go
Slice(b, lo, hi) == SubSeq(b, lo + 1, hi)

\* "/v2" + blobRepo + "/blobs/" + d.String(), as its segments
BlobPath(repository, d) == <<"v2", repository, "blobs", d>>

\* "/v2" + blobRepo + "/blobs/uploads/" + last, as its segments; last is ""
\* for the path that ends in the slash
UploadPath(repository, lastSeg) == <<"v2", repository, "blobs", "uploads", lastSeg>>

\* url.Values and http.Header of a request, with the keys the blob requests
\* use; "", 0 and << >> stand for a key that is not there
NoBlobDigest == [alg |-> "", of |-> << >>]
NoQuery == [mount |-> NoBlobDigest, digest |-> NoBlobDigest, chunk |-> 0]
NoHeaders == [Range |-> << >>, ContentLength |-> << >>, ContentRange |-> << >>]

\* the headers of a response; Location is the text the registry sends: the
\* last segment and the chunk of its query
NoLocation == [last |-> "", chunk |-> 0]
NoRespHeaders ==
    [AcceptRanges |-> "", ContentLength |-> 0, Range |-> << >>, Location |-> NoLocation,
     DockerContentDigest |-> NoBlobDigest]

\* ReqEntry{Name, DelOnUse, Method, Path, Query, Headers, Body}
ReqEntry(name, delOnUse, method, path, query, headers, body) ==
    [Name |-> name, DelOnUse |-> delOnUse, Method |-> method, Path |-> path,
     Query |-> query, Headers |-> headers, Body |-> body]

\* RespEntry{Status, Headers, Body}
RespEntry(status, headers, body) == [Status |-> status, Headers |-> headers, Body |-> body]

\* ReqResp{ReqEntry, RespEntry}
ReqResp(req, resp) == [ReqEntry |-> req, RespEntry |-> resp]

\* a request of the client, in the fields an entry is matched on
HttpRequest(method, path, query, headers, body) ==
    ReqEntry("", FALSE, method, path, query, headers, body)

\* an entry answers a request of its method and path that carries every
\* query key and header the entry lists, and, when the entry has a body, that
\* body
EntryMatches(e, req) ==
    /\ e.Method = req.Method
    /\ e.Path = req.Path
    /\ e.Query.mount \in {NoBlobDigest, req.Query.mount}
    /\ e.Query.digest \in {NoBlobDigest, req.Query.digest}
    /\ e.Query.chunk \in {0, req.Query.chunk}
    /\ e.Headers.Range \in {<< >>, req.Headers.Range}
    /\ e.Headers.ContentLength \in {<< >>, req.Headers.ContentLength}
    /\ e.Headers.ContentRange \in {<< >>, req.Headers.ContentRange}
    /\ e.Body \in {<< >>, req.Body}

RECURSIVE FirstMatch(_, _, _)
FirstMatch(rrs, i, req) ==
    IF i > Len(rrs) THEN 0
    ELSE IF EntryMatches(rrs[i].ReqEntry, req) THEN i
    ELSE FirstMatch(rrs, i + 1, req)

\* the handler NewHandler(t, rrs) makes: the first entry that matches answers,
\* and an entry with DelOnUse answers once; a request no entry matches is
\* refused
ServeHTTP(rrs, req) ==
    LET i == FirstMatch(rrs, 1, req)
    IN  IF i = 0 THEN [resp |-> RespEntry(500, NoRespHeaders, << >>), rrs |-> rrs, name |-> ""]
        ELSE [resp |-> rrs[i].RespEntry,
              rrs |-> IF rrs[i].ReqEntry.DelOnUse THEN RemoveAt(rrs, i) ELSE rrs,
              name |-> rrs[i].ReqEntry.Name]

\* the repositories and the upload of the blob tests
blobRepo == "proj/repo"
privateRepo == "proj/private"
uuid2 == "uuid2"

\* the entries of TestBlobGet, for blobs of blobLen bytes, a plain GET for d2
\* that delivers the first cut bytes, and a registry that advertises
\* Accept-Ranges on the HEAD for d2 or does not (the test: 1024, 512,
\* advertised)
BlobGetEntries(blobLen, cut, ranges) ==
    LET blob1 == newRandomBlob1(blobLen)
        d1 == FromBytes(blob1)
        blob2 == newRandomBlob(blobLen)
        d2 == FromBytes(blob2)
        path == BlobPath(blobRepo, d2)
    IN  << ReqResp(ReqEntry("HEAD for d1", FALSE, "HEAD", BlobPath(blobRepo, d1), NoQuery,
                            NoHeaders, << >>),
                   RespEntry(200,
                             [NoRespHeaders EXCEPT !.ContentLength = blobLen,
                                                   !.DockerContentDigest = d1],
                             << >>)),
           ReqResp(ReqEntry("GET for d1", FALSE, "GET", BlobPath(blobRepo, d1), NoQuery,
                            NoHeaders, << >>),
                   RespEntry(200,
                             [NoRespHeaders EXCEPT !.ContentLength = blobLen,
                                                   !.DockerContentDigest = d1],
                             blob1)),
           ReqResp(ReqEntry("GET Missing", FALSE, "GET", BlobPath(blobRepo, dMissing), NoQuery,
                            NoHeaders, << >>),
                   RespEntry(404, NoRespHeaders, << >>)),
           ReqResp(ReqEntry("HEAD for d2", FALSE, "HEAD", path, NoQuery, NoHeaders, << >>),
                   RespEntry(200,
                             [NoRespHeaders EXCEPT !.AcceptRanges = IF ranges THEN "bytes" ELSE "",
                                                   !.ContentLength = blobLen,
                                                   !.DockerContentDigest = d2],
                             << >>)),
           ReqResp(ReqEntry("GET for d2, range for second part", FALSE, "GET", path, NoQuery,
                            [NoHeaders EXCEPT !.Range = <<cut, blobLen>>], << >>),
                   RespEntry(200,
                             [NoRespHeaders EXCEPT !.ContentLength = blobLen - cut,
                                                   !.DockerContentDigest = d2],
                             Slice(blob2, cut, blobLen))),
           ReqResp(ReqEntry("GET for d2, short read", FALSE, "GET", path, NoQuery, NoHeaders,
                            << >>),
                   RespEntry(200,
                             [NoRespHeaders EXCEPT !.ContentLength = blobLen,
                                                   !.DockerContentDigest = d2],
                             Slice(blob2, 0, cut))),
           ReqResp(ReqEntry("GET Forbidden", FALSE, "GET", BlobPath(privateRepo, d1), NoQuery,
                            NoHeaders, << >>),
                   RespEntry(403, NoRespHeaders, << >>)) >>

\* one exchange a client had: the request, the answer, the entry that answered
Exchange(req, ans) == [req |-> req, resp |-> ans.resp, name |-> ans.name]

Min(a, b) == IF a <= b THEN a ELSE b

\* ---- BlobGet and the reader it returns ----

\* the state of one BlobGet: the registry's entries, the repository and the
\* digest asked for, the exchanges so far, the body of the response being read, the length
\* expected and the bytes received, the bytes handed to the caller, the
\* offsets at which the body ended early, the retries, the error
NoBlobGet ==
    [pc |-> "idle", rrs |-> << >>, repo |-> "", d |-> NoBlobDigest, reqs |-> << >>,
     body |-> << >>,
     readMax |-> 0, readCur |-> 0, got |-> << >>, short |-> << >>, retries |-> 0,
     err |-> "nil"]

\* a slip: the read is resumed from the start of the blob
resumeRangeFromZero(readCur, readMax) == <<0, readMax>>

\* the Range header of the GET that resumes a read: from the bytes received
\* to the length expected
resumeRange(readCur, readMax) == <<readCur, readMax>>

\* a slip: every status but 200 is the same error
httpErrorStatusCode(status) == "StatusCode"

\* the error a status other than 200 is returned as: one that matches
\* ErrUnauthorized for 401 and 403, ErrNotFound for 404, ErrStatusCode for the
\* others
httpError(status) ==
    IF status \in {401, 403} THEN "ErrUnauthorized"
    ELSE IF status = 404 THEN "ErrNotFound"
    ELSE "StatusCode"

\* rc.BlobGet(ctx, ref, d, nil): GET /v2/<repo>/blobs/<digest>; the reader is
\* returned on 200, and no reader but an error on another status
BlobGet(b, repository, d) ==
    LET req == HttpRequest("GET", BlobPath(repository, d), NoQuery, NoHeaders, << >>)
        ans == ServeHTTP(b.rrs, req)
    IN  IF ans.resp.Status = 200
        THEN [b EXCEPT !.pc = "reading", !.rrs = ans.rrs, !.d = d,
                       !.reqs = <<Exchange(req, ans)>>, !.body = ans.resp.Body,
                       !.readMax = ans.resp.Headers.ContentLength]
        ELSE [b EXCEPT !.pc = "failed", !.rrs = ans.rrs, !.d = d,
                       !.reqs = <<Exchange(req, ans)>>,
                       !.err = httpError(ans.resp.Status)]

\* the body ended before readMax bytes: the registry is asked by HEAD whether
\* it accepts ranges; if it does the GET is sent again with a Range header and
\* the reader goes on with its body, if not the GET is sent again from zero
\* and the bytes the caller already has are dropped from its body
resumeRead(b) ==
    IF b.retries >= MaxRetries
    THEN [b EXCEPT !.pc = "failed", !.err = "AllRequestsFailed"]
    ELSE LET path == b.reqs[1].req.Path
             head == HttpRequest("HEAD", path, NoQuery, NoHeaders, << >>)
             hAns == ServeHTTP(b.rrs, head)
             ranged == /\ hAns.resp.Status = 200
                       /\ hAns.resp.Headers.AcceptRanges = "bytes"
             get == HttpRequest("GET", path, NoQuery,
                                IF ranged
                                THEN [NoHeaders EXCEPT
                                          !.Range = resumeRange(b.readCur, b.readMax)]
                                ELSE NoHeaders,
                                << >>)
             gAns == ServeHTTP(hAns.rrs, get)
             exchanges == b.reqs \o <<Exchange(head, hAns), Exchange(get, gAns)>>
         IN  IF gAns.resp.Status \notin {200, 206}
             THEN [b EXCEPT !.pc = "failed", !.rrs = gAns.rrs, !.reqs = exchanges,
                            !.short = Append(@, b.readCur), !.err = "StatusCode"]
             ELSE [b EXCEPT !.rrs = gAns.rrs, !.reqs = exchanges,
                            !.short = Append(@, b.readCur), !.retries = @ + 1,
                            !.body = IF ranged THEN gAns.resp.Body
                                     ELSE Slice(gAns.resp.Body,
                                                Min(b.readCur, Len(gAns.resp.Body)),
                                                Len(gAns.resp.Body))]

\* Read(p) of the reader with room for k bytes: bytes of the body while there
\* are any; at its end either the blob is complete, and its digest is
\* compared, or the read is resumed
blobRead(b, k) ==
    IF b.body # << >>
    THEN LET i == Min(k, Len(b.body))
         IN  [b EXCEPT !.got = @ \o SubSeq(b.body, 1, i),
                       !.body = SubSeq(b.body, i + 1, Len(b.body)),
                       !.readCur = @ + i]
    ELSE IF b.readCur >= b.readMax
    THEN [b EXCEPT !.pc = "done",
                   !.err = IF FromBytes(b.got) = b.d THEN "nil" ELSE "DigestMismatch"]
    ELSE resumeRead(b)

\* ---- BlobPut ----

\* the chunks a blob of blobLen bytes is sent in
NumChunks(blobLen, blobChunk) == (blobLen + blobChunk - 1) \div blobChunk

\* the PATCH entry for the i-th chunk of blob2: the first chunk goes to the
\* upload as the POST named it, the i-th to ?chunk=i; it is accepted with the
\* Location of the next chunk, or fails with 504 Gateway Timeout
PatchEntry(name, delOnUse, blob2, blobChunk, i, status) ==
    LET lo == (i - 1) * blobChunk
        hi == Min(i * blobChunk, Len(blob2))
    IN  ReqResp(ReqEntry(name, delOnUse, "PATCH", UploadPath(blobRepo, uuid2),
                         [NoQuery EXCEPT !.chunk = IF i = 1 THEN 0 ELSE i],
                         [NoHeaders EXCEPT !.ContentLength = <<hi - lo>>,
                                           !.ContentRange = <<lo, hi>>],
                         Slice(blob2, lo, hi)),
                IF status = 202
                THEN RespEntry(202,
                               [NoRespHeaders EXCEPT !.Range = <<0, hi>>,
                                                     !.Location = [last |-> uuid2,
                                                                   chunk |-> i + 1]],
                               << >>)
                ELSE RespEntry(status, NoRespHeaders, << >>))

\* the entries of TestBlobPut for d2, for a blob of blobLen bytes sent in
\* chunks of blobChunk, where the PATCH of chunk failAt fails the first fails
\* times (the test: 1024, 512, the second chunk, once); the Location of the
\* last answer, the blob itself, is left out: no request is sent to it
BlobPutEntries(blobLen, blobChunk, failAt, fails) ==
    LET blob2 == newRandomBlob(blobLen)
        d2 == FromBytes(blob2)
        chunks == NumChunks(blobLen, blobChunk)
    IN  << ReqResp(ReqEntry("POST for d2", FALSE, "POST", UploadPath(blobRepo, ""),
                            [NoQuery EXCEPT !.mount = d2], NoHeaders, << >>),
                   RespEntry(202,
                             [NoRespHeaders EXCEPT !.Range = <<0, 0>>,
                                                   !.Location = [last |-> uuid2,
                                                                 chunk |-> 0]],
                             << >>)),
           ReqResp(ReqEntry("PUT for patched d2", FALSE, "PUT", UploadPath(blobRepo, uuid2),
                            [NoQuery EXCEPT !.digest = d2, !.chunk = chunks + 1],
                            [NoHeaders EXCEPT !.ContentLength = <<0>>,
                                              !.ContentRange = <<blobLen, blobLen>>],
                            << >>),
                   RespEntry(201, [NoRespHeaders EXCEPT !.DockerContentDigest = d2], << >>)) >>
        \o [j \in 1..(IF failAt = 0 THEN 0 ELSE fails) |->
               PatchEntry("PATCH fail for d2", TRUE, blob2, blobChunk, failAt, 504)]
        \o [j \in 1..chunks |->
               PatchEntry("PATCH for d2", FALSE, blob2, blobChunk, chunks + 1 - j, 202)]
        \o << ReqResp(ReqEntry("PUT for d2", FALSE, "PUT", UploadPath(blobRepo, uuid2),
                               [NoQuery EXCEPT !.digest = d2],
                               [NoHeaders EXCEPT !.ContentLength = <<blobLen>>], blob2),
                      RespEntry(504, NoRespHeaders, << >>)) >>

\* where the next request of an upload goes: a path and the chunk of its query
NoTarget == [path |-> << >>, chunk |-> 0]

\* what BlobPut returns: digest, length, error
NoPutResult == [d |-> NoBlobDigest, n |-> 0, err |-> "nil"]

\* the state of one BlobPut: the registry's entries, the bytes of the reader
\* and the digest passed, the chunk size and the largest blob sent in one PUT
\* (WithBlobSize), where the upload stands, the bytes accepted, the exchanges
\* so far, the retries of the request in hand, the result
NoBlobPut ==
    [pc |-> "idle", rrs |-> << >>, blob |-> << >>, d |-> NoBlobDigest, chunkSize |-> 0,
     maxPut |-> 0, loc |-> NoTarget, off |-> 0, sent |-> << >>, reqs |-> << >>,
     retries |-> 0, res |-> NoPutResult]

\* a Location header, read against the URL of the request it answers
ResolveLocation(base, location) ==
    [path |-> SubSeq(base, 1, Len(base) - 1) \o <<location.last>>, chunk |-> location.chunk]

\* the statuses a request is sent again on
Retriable == {429, 502, 503, 504}

\* the POST that opens the upload: /v2/<repo>/blobs/uploads/?mount=<digest>;
\* 201 says the blob is there, 202 names the upload in Location, and a blob
\* of at most maxPut bytes is then tried in one PUT
blobPutStart(p, repository) ==
    LET req == HttpRequest("POST", UploadPath(repository, ""),
                           [NoQuery EXCEPT !.mount = p.d], NoHeaders, << >>)
        ans == ServeHTTP(p.rrs, req)
        q == [p EXCEPT !.rrs = ans.rrs, !.reqs = Append(@, Exchange(req, ans))]
    IN  IF ans.resp.Status = 201
        THEN [q EXCEPT !.pc = "done", !.res = [d |-> p.d, n |-> Len(p.blob), err |-> "nil"]]
        ELSE IF ans.resp.Status = 202
        THEN [q EXCEPT !.pc = IF Len(p.blob) <= p.maxPut THEN "full" ELSE "chunked",
                       !.loc = ResolveLocation(req.Path, ans.resp.Headers.Location)]
        ELSE [q EXCEPT !.pc = "failed", !.res = [NoPutResult EXCEPT !.err = "StatusCode"]]

\* the whole blob in one PUT to Location?digest=<d>; when the retries are used
\* up the blob is sent in chunks
blobPutUploadFull(p) ==
    LET req == HttpRequest("PUT", p.loc.path,
                           [NoQuery EXCEPT !.digest = p.d, !.chunk = p.loc.chunk],
                           [NoHeaders EXCEPT !.ContentLength = <<Len(p.blob)>>], p.blob)
        ans == ServeHTTP(p.rrs, req)
        q == [p EXCEPT !.rrs = ans.rrs, !.reqs = Append(@, Exchange(req, ans))]
    IN  IF ans.resp.Status = 201
        THEN [q EXCEPT !.pc = "done", !.res = [d |-> p.d, n |-> Len(p.blob), err |-> "nil"]]
        ELSE IF ans.resp.Status \in Retriable
        THEN IF p.retries >= MaxRetries
             THEN [q EXCEPT !.pc = "chunked", !.retries = 0]
             ELSE [q EXCEPT !.retries = @ + 1]
        ELSE [q EXCEPT !.pc = "failed", !.res = [NoPutResult EXCEPT !.err = "StatusCode"]]

\* a slip: the chunk that failed counts as sent
patchRetrySkip(p, n) == [p EXCEPT !.retries = @ + 1, !.off = @ + n]

\* a PATCH of n bytes failed with a status that is retried: the upload stays
\* where it was
patchRetry(p, n) == [p EXCEPT !.retries = @ + 1]

\* one PATCH of the chunked upload: the next chunkSize bytes, or what is left,
\* with Content-Range start-end, to Location; 202 moves the upload to the
\* Location of the answer
blobPutUploadChunked(p) ==
    LET n == Min(p.chunkSize, Len(p.blob) - p.off)
        body == Slice(p.blob, p.off, p.off + n)
        req == HttpRequest("PATCH", p.loc.path, [NoQuery EXCEPT !.chunk = p.loc.chunk],
                           [NoHeaders EXCEPT !.ContentLength = <<n>>,
                                             !.ContentRange = <<p.off, p.off + n>>],
                           body)
        ans == ServeHTTP(p.rrs, req)
        q == [p EXCEPT !.rrs = ans.rrs, !.reqs = Append(@, Exchange(req, ans))]
    IN  IF ans.resp.Status = 202
        THEN [q EXCEPT !.pc = IF p.off + n >= Len(p.blob) THEN "closing" ELSE "chunked",
                       !.loc = ResolveLocation(req.Path, ans.resp.Headers.Location),
                       !.off = @ + n, !.sent = @ \o body, !.retries = 0]
        ELSE IF ans.resp.Status \in Retriable
        THEN IF p.retries >= MaxRetries
             THEN [q EXCEPT !.pc = "failed",
                            !.res = [NoPutResult EXCEPT !.err = "AllRequestsFailed"]]
             ELSE patchRetry(q, n)
        ELSE [q EXCEPT !.pc = "failed", !.res = [NoPutResult EXCEPT !.err = "StatusCode"]]

\* the PUT that closes the upload: no body, Location?digest=<d> with the
\* digest of the bytes sent; BlobPut returns that digest and their number
blobPutClose(p) ==
    LET d == FromBytes(p.sent)
        req == HttpRequest("PUT", p.loc.path,
                           [NoQuery EXCEPT !.digest = d, !.chunk = p.loc.chunk],
                           [NoHeaders EXCEPT !.ContentLength = <<0>>,
                                             !.ContentRange = <<p.off, p.off>>],
                           << >>)
        ans == ServeHTTP(p.rrs, req)
        q == [p EXCEPT !.rrs = ans.rrs, !.reqs = Append(@, Exchange(req, ans))]
    IN  IF ans.resp.Status = 201
        THEN [q EXCEPT !.pc = "done", !.res = [d |-> d, n |-> p.off, err |-> "nil"]]
        ELSE IF ans.resp.Status \in Retriable /\ p.retries < MaxRetries
        THEN [q EXCEPT !.retries = @ + 1]
        ELSE [q EXCEPT !.pc = "failed", !.res = [NoPutResult EXCEPT !.err = "StatusCode"]]

\* ------------------------------------------------------------------------
\* State
\* ------------------------------------------------------------------------

VARIABLES
    index,      \* index.Manifests of the v1.Index a caller holds
    last,       \* the last call on it: operation, arguments, result
    layoutFile, \* <path>/oci-layout
    indexFile,  \* <path>/index.json
    mu,         \* OCIDir.mu: "free" or the goroutine that holds it
    modRefs,    \* OCIDir.modRefs[path]: the set of refs stored (none or one)
    call,       \* per goroutine: the function it was started on, its arguments
    pc,         \* per goroutine: where it stands
    loc,        \* per goroutine: the v1.Index it holds in memory
    res,        \* per goroutine: what the function it ran last returned
    disk0,      \* the two files as they were before any goroutine ran
    man,        \* the manifest a caller holds (the zero manifest for nil)
    mlast,      \* the last call that made or changed it, and its error
    acc,        \* the last accessor called on it, and what it returned
    mdel,       \* the last ManifestDelete: reference, answer, requests, error
    bget,       \* the BlobGet in progress and the reader it returned
    bput        \* the BlobPut in progress

idxVars == <<index, last>>
fsVars == <<layoutFile, indexFile, mu, modRefs, call, pc, loc, res, disk0>>
manVars == <<man, mlast, acc, mdel>>
blobVars == <<bget, bput>>
vars == <<index, last, layoutFile, indexFile, mu, modRefs, call, pc, loc, res, disk0,
          man, mlast, acc, mdel, bget, bput>>

NoRef == [Tag |-> "", Digest |-> ""]
NotFound == [desc |-> ZeroDescriptor, err |-> "ErrNotFound"]
NoCall == [op |-> "none", pre |-> << >>, r |-> NoRef, d |-> ZeroDescriptor,
           res |-> NotFound, again |-> FALSE]

\* the goroutines that use one OCIDir on one layout path
Procs == {"g1", "g2"}

NoArgs == [op |-> "none", r |-> NoRef, d |-> ZeroDescriptor, i |-> << >>]
NoResult == [err |-> "nil", index |-> << >>]

\* no goroutine runs and the layout directory is empty
FsQuiet ==
    /\ layoutFile = NoFile
    /\ indexFile = NoFile
    /\ mu = "free"
    /\ modRefs = {}
    /\ call = [p \in Procs |-> NoArgs]
    /\ pc = [p \in Procs |-> "idle"]
    /\ loc = [p \in Procs |-> << >>]
    /\ res = [p \in Procs |-> NoResult]
    /\ disk0 = [layout |-> NoFile, index |-> NoFile]

\* the answer of the registry to a manifest request, as ManifestGet reads it
NoResponse ==
    [transport |-> "none", status |-> 0, contentType |-> "", body |-> EmptyBody,
     dockerContentDigest |-> NoDigest]

\* no ManifestDelete was called
NoDelete == [op |-> "none", ref |-> NoRegRef, answer |-> NoAnswer, reqs |-> << >>,
             err |-> "nil"]

\* no accessor was called
NoAccess == [op |-> "none", p |-> ZeroPlatform, res |-> NoAcc]

\* no blob is read or written
BlobQuiet ==
    /\ bget = NoBlobGet
    /\ bput = NoBlobPut

\* no manifest is in use
ManQuiet ==
    /\ man = ZeroRegManifest
    /\ mlast = [op |-> "none", err |-> "nil", resp |-> NoResponse]
    /\ acc = NoAccess
    /\ mdel = NoDelete

\* the index is the one indexCreate returns
InitCreate ==
    /\ index = indexCreate
    /\ last = NoCall
    /\ FsQuiet
    /\ BlobQuiet
    /\ ManQuiet

\* the index is one readIndex unmarshalled from an index.json on disk, which
\* any tool may have written: any list of rows
InitLoaded ==
    /\ index \in SeqsUpTo(Descriptors, MaxLen)
    /\ last = NoCall
    /\ FsQuiet
    /\ BlobQuiet
    /\ ManQuiet

\* a call indexSet(&index, r, d); again records that the call before it was
\* the same call
DoIndexSet(r, d) ==
    /\ Len(index) <= MaxLen
    /\ index' = indexSet(index, r, d)
    /\ last' = [op |-> "indexSet", pre |-> index, r |-> r, d |-> d,
                res |-> [desc |-> ZeroDescriptor, err |-> "nil"],
                again |-> (last.op = "indexSet" /\ last.r = r /\ last.d = d)]
    /\ UNCHANGED <<fsVars, manVars, blobVars>>

\* a call indexGet(index, r); the index is passed by value
DoIndexGet(r) ==
    /\ last' = [op |-> "indexGet", pre |-> index, r |-> r, d |-> ZeroDescriptor,
                res |-> indexGet(index, r), again |-> FALSE]
    /\ UNCHANGED index
    /\ UNCHANGED <<fsVars, manVars, blobVars>>

NextIndex ==
    \/ \E r \in Refs, d \in Descriptors : DoIndexSet(r, d)
    \/ \E r \in Refs : DoIndexGet(r)

\* calls on an index loaded from disk
Spec == InitLoaded /\ [][NextIndex]_vars

\* calls on an index that started as indexCreate()
SpecCreate == InitCreate /\ [][NextIndex]_vars

\* ------------------------------------------------------------------------
\* Goroutines on the files of one layout
\* ------------------------------------------------------------------------

\* a row of index.json
Row(digest, annotations) == [Digest |-> digest, Annotations |-> annotations]

\* what <path>/oci-layout may be when the goroutines start
LayoutFiles0 ==
    {NoFile, Directory, File(EmptyBytes), File(NotJSON), File(EmptyObject),
     File(MarshalLayout("0.9.0")), File(MarshalLayout(reqVer))}

\* what <path>/index.json may be when the goroutines start
IndexFiles0 ==
    {NoFile, Directory, File(NotJSON),
     File(MarshalIndex(<< >>)),
     File(MarshalIndex(<<Row("sha256:d1", Annotate("v1"))>>))}

\* the calls a goroutine is started on: readIndex(r), writeIndex(r, i), and
\* the index update of a manifest put: readIndex, indexSet(r, d), writeIndex,
\* refMod
ReadCalls == {[NoArgs EXCEPT !.op = "readIndex"]}
WriteCalls ==
    {[NoArgs EXCEPT !.op = "writeIndex", !.i = i] :
        i \in {<< >>, <<Row("sha256:d2", Annotate("latest"))>>}}
UpdateCalls ==
    {[NoArgs EXCEPT !.op = "update", !.r = [Tag |-> t, Digest |-> ""],
                    !.d = Row(dg, NoAnnotations)] :
        t \in Tags, dg \in Digests}

\* the length in bytes of a file's contents, as far as it orders them: a row
\* of index.json is longer with an annotation, and longer with a longer tag
RowLen(im) == 150 + (IF HasRefName(im) THEN 55 + (IF RefName(im) = "latest" THEN 6 ELSE 2) ELSE 0)

RECURSIVE RowsLen(_)
RowsLen(manifests) ==
    IF manifests = << >> THEN 0 ELSE RowLen(Head(manifests)) + RowsLen(Tail(manifests))

ByteLen(data) ==
    IF data = EmptyBytes THEN 0
    ELSE IF Len(data) = 3 /\ data[1] = MarshalIndex(<< >>)[1] THEN 30 + RowsLen(data[2])
    ELSE IF Len(data) = 3 THEN 30
    ELSE IF data = EmptyObject THEN 2
    ELSE 8

\* fh.Write(b) through a handle fs.Create returned, at its offset 0: bytes of
\* the file beyond len(b), written meanwhile through another handle, stay
WriteAt0(data, b) == IF ByteLen(data) > ByteLen(b) THEN NotJSON ELSE b

\* where a goroutine goes on when function fn returns err: a function called
\* on its own ends the goroutine; the update goes on to the next function
\* only when err is nil
ReturnPc(op, fn, err) ==
    IF op = "update" /\ err = "nil"
    THEN (IF fn = "readIndex" THEN "indexSet" ELSE "refModLock")
    ELSE "done"

InitLayout ==
    /\ index = indexCreate
    /\ last = NoCall
    /\ layoutFile \in LayoutFiles0
    /\ indexFile \in IndexFiles0
    /\ mu = "free"
    /\ modRefs = {}
    /\ call = [p \in Procs |-> NoArgs]
    /\ pc = [p \in Procs |-> "idle"]
    /\ loc = [p \in Procs |-> << >>]
    /\ res = [p \in Procs |-> NoResult]
    /\ disk0 = [layout |-> layoutFile, index |-> indexFile]
    /\ ManQuiet
    /\ BlobQuiet

\* a goroutine is started on a call
Start(p, c) ==
    /\ pc[p] = "idle"
    /\ call' = [call EXCEPT ![p] = c]
    /\ pc' = [pc EXCEPT ![p] = IF c.op = "writeIndex" THEN "layoutCreate" ELSE "validOpen"]
    /\ loc' = [loc EXCEPT ![p] = c.i]
    /\ UNCHANGED <<blobVars, idxVars, manVars, layoutFile, indexFile, mu, modRefs, res, disk0>>

\* readIndex -> valid: fs.Open(oci-layout)
ValidOpen(p) ==
    /\ pc[p] = "validOpen"
    /\ LET err == validOpen(layoutFile)
       IN  IF err # "nil"
           THEN /\ res' = [res EXCEPT ![p] = [err |-> err, index |-> << >>]]
                /\ pc' = [pc EXCEPT ![p] = ReturnPc(call[p].op, "readIndex", err)]
           ELSE /\ pc' = [pc EXCEPT ![p] = "validRead"]
                /\ UNCHANGED res
    /\ UNCHANGED <<blobVars, idxVars, manVars, layoutFile, indexFile, mu, modRefs, call, loc, disk0>>

\* readIndex -> valid: io.ReadAll, json.Unmarshal, version test
ValidRead(p) ==
    /\ pc[p] = "validRead"
    /\ LET err == validRead(layoutFile)
       IN  IF err # "nil"
           THEN /\ res' = [res EXCEPT ![p] = [err |-> err, index |-> << >>]]
                /\ pc' = [pc EXCEPT ![p] = ReturnPc(call[p].op, "readIndex", err)]
           ELSE /\ pc' = [pc EXCEPT ![p] = "indexOpen"]
                /\ UNCHANGED res
    /\ UNCHANGED <<blobVars, idxVars, manVars, layoutFile, indexFile, mu, modRefs, call, loc, disk0>>

\* readIndex: fs.Open(index.json)
IndexOpen(p) ==
    /\ pc[p] = "indexOpen"
    /\ LET err == indexOpen(indexFile)
       IN  IF err # "nil"
           THEN /\ res' = [res EXCEPT ![p] = [err |-> err, index |-> << >>]]
                /\ pc' = [pc EXCEPT ![p] = ReturnPc(call[p].op, "readIndex", err)]
           ELSE /\ pc' = [pc EXCEPT ![p] = "indexRead"]
                /\ UNCHANGED res
    /\ UNCHANGED <<blobVars, idxVars, manVars, layoutFile, indexFile, mu, modRefs, call, loc, disk0>>

\* readIndex: io.ReadAll, json.Unmarshal, return
IndexRead(p) ==
    /\ pc[p] = "indexRead"
    /\ LET got == indexRead(indexFile)
       IN  /\ res' = [res EXCEPT ![p] = got]
           /\ pc' = [pc EXCEPT ![p] = ReturnPc(call[p].op, "readIndex", got.err)]
    /\ UNCHANGED <<blobVars, idxVars, manVars, layoutFile, indexFile, mu, modRefs, call, loc, disk0>>

\* the update: indexSet(&index, r, d) on the index readIndex returned
UpdateIndexSet(p) ==
    /\ pc[p] = "indexSet"
    /\ loc' = [loc EXCEPT ![p] = indexSet(res[p].index, call[p].r, call[p].d)]
    /\ pc' = [pc EXCEPT ![p] = "layoutCreate"]
    /\ UNCHANGED <<blobVars, idxVars, manVars, layoutFile, indexFile, mu, modRefs, call, res, disk0>>

\* writeIndex: fs.Create(oci-layout) truncates the file
CreateLayoutFile(p) ==
    /\ pc[p] = "layoutCreate"
    /\ IF CreateErr(layoutFile)
       THEN /\ res' = [res EXCEPT ![p] = [err |-> "cannot create oci-layout", index |-> << >>]]
            /\ pc' = [pc EXCEPT ![p] = "done"]
            /\ UNCHANGED layoutFile
       ELSE /\ layoutFile' = File(EmptyBytes)
            /\ pc' = [pc EXCEPT ![p] = "layoutWrite"]
            /\ UNCHANGED res
    /\ UNCHANGED <<blobVars, idxVars, manVars, indexFile, mu, modRefs, call, loc, disk0>>

\* writeIndex: lfh.Write(lb)
WriteLayoutFile(p) ==
    /\ pc[p] = "layoutWrite"
    /\ layoutFile' = File(WriteAt0(layoutFile.data, MarshalLayout(reqVer)))
    /\ pc' = [pc EXCEPT ![p] = "indexCreate"]
    /\ UNCHANGED <<blobVars, idxVars, manVars, indexFile, mu, modRefs, call, loc, res, disk0>>

\* writeIndex: fs.Create(index.json) truncates the file
CreateIndexFile(p) ==
    /\ pc[p] = "indexCreate"
    /\ IF CreateErr(indexFile)
       THEN /\ res' = [res EXCEPT ![p] = [err |-> "index.json cannot be created", index |-> << >>]]
            /\ pc' = [pc EXCEPT ![p] = "done"]
            /\ UNCHANGED indexFile
       ELSE /\ indexFile' = File(EmptyBytes)
            /\ pc' = [pc EXCEPT ![p] = "indexWrite"]
            /\ UNCHANGED res
    /\ UNCHANGED <<blobVars, idxVars, manVars, layoutFile, mu, modRefs, call, loc, disk0>>

\* writeIndex: json.Marshal(i), fh.Write(b), return nil
WriteIndexFile(p) ==
    /\ pc[p] = "indexWrite"
    /\ indexFile' = File(WriteAt0(indexFile.data, MarshalIndex(loc[p])))
    /\ res' = [res EXCEPT ![p] = NoResult]
    /\ pc' = [pc EXCEPT ![p] = ReturnPc(call[p].op, "writeIndex", "nil")]
    /\ UNCHANGED <<blobVars, idxVars, manVars, layoutFile, mu, modRefs, call, loc, disk0>>

\* refMod: o.mu.Lock()
RefModLock(p) ==
    /\ pc[p] = "refModLock"
    /\ mu = "free"
    /\ mu' = p
    /\ pc' = [pc EXCEPT ![p] = "refModSet"]
    /\ UNCHANGED <<blobVars, idxVars, manVars, layoutFile, indexFile, modRefs, call, loc, res, disk0>>

\* refMod: o.modRefs[r.Path] = r, and the deferred o.mu.Unlock()
RefModSet(p) ==
    /\ pc[p] = "refModSet"
    /\ modRefs' = {call[p].r}
    /\ mu' = "free"
    /\ pc' = [pc EXCEPT ![p] = "done"]
    /\ UNCHANGED <<blobVars, idxVars, manVars, layoutFile, indexFile, call, loc, res, disk0>>

NextLayout ==
    \/ \E p \in Procs, c \in ReadCalls \cup WriteCalls \cup UpdateCalls : Start(p, c)
    \/ \E p \in Procs : ValidOpen(p)
    \/ \E p \in Procs : ValidRead(p)
    \/ \E p \in Procs : IndexOpen(p)
    \/ \E p \in Procs : IndexRead(p)
    \/ \E p \in Procs : UpdateIndexSet(p)
    \/ \E p \in Procs : CreateLayoutFile(p)
    \/ \E p \in Procs : WriteLayoutFile(p)
    \/ \E p \in Procs : CreateIndexFile(p)
    \/ \E p \in Procs : WriteIndexFile(p)
    \/ \E p \in Procs : RefModLock(p)
    \/ \E p \in Procs : RefModSet(p)

\* goroutines reading and writing the files of one layout
SpecLayout == InitLayout /\ [][NextLayout]_vars

\* ------------------------------------------------------------------------
\* Manifests in use
\* ------------------------------------------------------------------------

\* documents a registry serves and callers build
ImageValues ==
    [MediaType : {"", MediaTypeDocker2Manifest},
     Config : {Row("sha256:d1", NoAnnotations)},
     Layers : {<<Row("sha256:d2", NoAnnotations)>>, << >>}]
ListValues ==
    [MediaType : {"", MediaTypeDocker2ManifestList},
     Manifests : {<<Entry("sha256:d1", PlatformPtr(Platform("linux", "amd64"))),
                    Entry("sha256:d2", PlatformPtr(Platform("linux", "x86_64")))>>,
                  <<Entry("sha256:d1", NilPlatform),
                    Entry("sha256:d2", PlatformPtr(Platform("linux", "amd64")))>>,
                  <<Entry("sha256:d1", PlatformPtr(Platform("linux", "arm64")))>>}]

\* the bodies of responses: documents in compact and in padded form, text
\* that is not JSON, and no bytes at all
Bodies ==
    {MarshalManifest(v) : v \in ImageValues}
        \cup {[MarshalManifest(v) EXCEPT !.pad = 1] : v \in ImageValues}
        \cup {MarshalManifestList(v) : v \in ListValues}
        \cup {[MarshalManifestList(v) EXCEPT !.pad = 1] : v \in ListValues}
        \cup {EmptyBody, GarbageBody}

ContentTypes ==
    {MediaTypeDocker2Manifest, MediaTypeDocker2ManifestList, MediaTypeOCI1Manifest,
     MediaTypeOCI1ManifestList, "text/plain"}

\* the Docker-Content-Digest header is absent, the digest of the body, or
\* another digest
Responses ==
    {[NoResponse EXCEPT !.transport = "request failed"]}
        \cup {[NoResponse EXCEPT !.transport = "ok", !.status = 404]}
        \cup {[NoResponse EXCEPT !.transport = "read failed", !.status = 200]}
        \cup UNION {{[transport |-> "ok", status |-> 200, contentType |-> ct, body |-> b,
                       dockerContentDigest |-> h] :
                         ct \in ContentTypes,
                         h \in {NoDigest, FromBytes(b), FromBytes(GarbageBody)}} :
                     b \in Bodies}

\* the values a caller passes to SetOrig
OrigValues ==
    {[type |-> "schema2.Manifest", value |-> v] : v \in ImageValues}
        \cup {[type |-> "schema2.ManifestList", value |-> v] : v \in ListValues}

InitManifest ==
    /\ index = indexCreate
    /\ last = NoCall
    /\ FsQuiet
    /\ BlobQuiet
    /\ man \in {ZeroRegManifest, ZeroDocker2Manifest, ZeroDocker2ManifestList}
    /\ mlast = [op |-> "none", err |-> "nil", resp |-> NoResponse]
    /\ acc = NoAccess
    /\ mdel = NoDelete

\* m, err := rc.ManifestGet(ctx, ref) with the registry answering resp: the
\* caller holds the manifest returned
DoManifestGet(resp) ==
    /\ LET got == ManifestGetResponse(resp)
       IN  /\ man' = got.m
           /\ mlast' = [op |-> "ManifestGet", err |-> got.err, resp |-> resp]
    /\ acc' = NoAccess
    /\ UNCHANGED <<blobVars, idxVars, fsVars, mdel>>

\* m.SetOrig(origIn) on a docker2Manifest
DoSetOrigManifest(origIn) ==
    /\ man.type = "docker2Manifest"
    /\ LET got == docker2ManifestSetOrig(man, origIn)
       IN  /\ man' = got.m
           /\ mlast' = [op |-> "SetOrig", err |-> got.err, resp |-> NoResponse]
    /\ acc' = NoAccess
    /\ UNCHANGED <<blobVars, idxVars, fsVars, mdel>>

\* m.SetOrig(origIn) on a docker2ManifestList
DoSetOrigManifestList(origIn) ==
    /\ man.type = "docker2ManifestList"
    /\ LET got == docker2ManifestListSetOrig(man, origIn)
       IN  /\ man' = got.m
           /\ mlast' = [op |-> "SetOrig", err |-> got.err, resp |-> NoResponse]
    /\ acc' = NoAccess
    /\ UNCHANGED <<blobVars, idxVars, fsVars, mdel>>

\* a call of an accessor without arguments on the manifest held
DoAccessor(name) ==
    /\ name \in Methods(man.type) \ {"GetPlatformDesc"}
    /\ acc' = [op |-> name, p |-> ZeroPlatform, res |-> Accessor(man, name, ZeroPlatform)]
    /\ UNCHANGED <<man, mlast, mdel>>
    /\ UNCHANGED <<blobVars, idxVars, fsVars>>

\* m.GetPlatformDesc(&p) on the manifest held
DoGetPlatformDesc(p) ==
    /\ acc' = [op |-> "GetPlatformDesc", p |-> p, res |-> Accessor(man, "GetPlatformDesc", p)]
    /\ UNCHANGED <<man, mlast, mdel>>
    /\ UNCHANGED <<blobVars, idxVars, fsVars>>

\* m.MarshalJSON() on the manifest held
DoMarshalJSON ==
    /\ acc' = [op |-> "MarshalJSON", p |-> ZeroPlatform, res |-> AccErr(MarshalJSON(man).err)]
    /\ UNCHANGED <<man, mlast, mdel>>
    /\ UNCHANGED <<blobVars, idxVars, fsVars>>

AccessorNames ==
    {"GetConfig", "GetConfigDigest", "GetLayers", "GetManifestList", "GetPlatformList"}

NextManifest ==
    \/ \E resp \in Responses : DoManifestGet(resp)
    \/ \E origIn \in OrigValues : DoSetOrigManifest(origIn)
    \/ \E origIn \in OrigValues : DoSetOrigManifestList(origIn)
    \/ \E name \in AccessorNames : DoAccessor(name)
    \/ \E p \in Platforms : DoGetPlatformDesc(p)
    \/ DoMarshalJSON

\* manifests fetched from a registry or populated by SetOrig
SpecManifest == InitManifest /\ [][NextManifest]_vars

\* ------------------------------------------------------------------------
\* Requests in use
\* ------------------------------------------------------------------------

InitRequests ==
    /\ index = indexCreate
    /\ last = NoCall
    /\ FsQuiet
    /\ BlobQuiet
    /\ ManQuiet

\* err := rc.ManifestDelete(ctx, ref), with the registry answering
DoManifestDelete(ref, answer) ==
    /\ LET got == ManifestDelete(ref, answer)
       IN  mdel' = [op |-> "ManifestDelete", ref |-> ref,
                    answer |-> IF got.reqs = << >> THEN NoAnswer ELSE answer,
                    reqs |-> got.reqs, err |-> got.err]
    /\ UNCHANGED <<man, mlast, acc>>
    /\ UNCHANGED <<blobVars, idxVars, fsVars>>

\* references to one repository: with or without a tag, with or without a
\* digest
RepoRefs ==
    {ref \in RegRefs : /\ ref.Repository = blobRepo
                       /\ ref.Tag \in {"", "v1"}
                       /\ ref.Digest \in {"", "sha256:d1"}}

\* what the registry answers when asked for a manifest: no answer, 404, or an
\* image manifest with layers under one of two media types, with or without
\* its digest in Docker-Content-Digest
ManifestAnswers ==
    {resp \in Responses :
        (resp.transport = "ok" /\ resp.status = 200) =>
            /\ resp.contentType \in {MediaTypeDocker2Manifest, MediaTypeOCI1Manifest}
            /\ resp.dockerContentDigest \in {NoDigest, FromBytes(resp.body)}
            /\ \E v \in ImageValues : v.Layers # << >> /\ resp.body = MarshalManifest(v)}

\* the status of an answer, as the record of a call keeps it
AnswerOf(resp) == [transport |-> resp.transport, status |-> resp.status]

\* m, err := rc.ManifestGet(ctx, ref), with the registry answering: the
\* caller holds the manifest returned
DoManifestGetRef(ref, resp) ==
    /\ LET got == ManifestGet(ref, resp)
       IN  /\ man' = got.m
           /\ mlast' = [op |-> "ManifestGet", err |-> got.err,
                        resp |-> IF got.reqs = << >> THEN NoResponse ELSE resp]
           /\ mdel' = [op |-> "ManifestGet", ref |-> ref,
                       answer |-> IF got.reqs = << >> THEN NoAnswer ELSE AnswerOf(resp),
                       reqs |-> got.reqs, err |-> got.err]
    /\ acc' = NoAccess
    /\ UNCHANGED <<blobVars, idxVars, fsVars>>

\* m, err := rc.ManifestHead(ctx, ref), with the registry answering: the
\* caller holds the manifest returned
DoManifestHead(ref, resp) ==
    /\ LET got == ManifestHead(ref, resp)
       IN  /\ man' = got.m
           /\ mlast' = [op |-> "ManifestHead", err |-> got.err,
                        resp |-> IF got.reqs = << >> THEN NoResponse ELSE resp]
           /\ mdel' = [op |-> "ManifestHead", ref |-> ref,
                       answer |-> IF got.reqs = << >> THEN NoAnswer ELSE AnswerOf(resp),
                       reqs |-> got.reqs, err |-> got.err]
    /\ acc' = NoAccess
    /\ UNCHANGED <<blobVars, idxVars, fsVars>>

\* err := rc.ManifestPut(ctx, ref, m) with the manifest the caller got from
\* ManifestGet or ManifestHead, with the registry answering
DoManifestPut(ref, answer) ==
    /\ mlast.op \in {"ManifestGet", "ManifestHead"}
    /\ mlast.err = "nil"
    /\ LET got == ManifestPut(ref, man, answer)
       IN  mdel' = [op |-> "ManifestPut", ref |-> ref,
                    answer |-> IF got.reqs = << >> THEN NoAnswer ELSE answer,
                    reqs |-> got.reqs, err |-> got.err]
    /\ UNCHANGED <<man, mlast, acc>>
    /\ UNCHANGED <<blobVars, idxVars, fsVars>>

NextRequests ==
    \/ \E ref \in RegRefs, answer \in DeleteAnswers : DoManifestDelete(ref, answer)
    \/ \E ref \in RepoRefs, resp \in ManifestAnswers : DoManifestGetRef(ref, resp)
    \/ \E ref \in RepoRefs, resp \in ManifestAnswers : DoManifestHead(ref, resp)
    \/ \E ref \in RepoRefs, answer \in PutAnswers : DoManifestPut(ref, answer)
    \/ DoMarshalJSON

\* calls that change a registry
SpecRequests == InitRequests /\ [][NextRequests]_vars

\* ------------------------------------------------------------------------
\* Blobs in use
\* ------------------------------------------------------------------------

\* the blobs a test asks for: d1, the missing one and d2 in blobRepo, d1 in
\* privateRepo
BlobTargets(blobLen) ==
    {[repo |-> blobRepo, d |-> FromBytes(newRandomBlob1(blobLen))],
     [repo |-> blobRepo, d |-> dMissing],
     [repo |-> blobRepo, d |-> FromBytes(newRandomBlob(blobLen))],
     [repo |-> privateRepo, d |-> FromBytes(newRandomBlob1(blobLen))]}

\* the registry of TestBlobGet, whose plain GET for d2 delivers the first cut
\* bytes; a blob is about to be asked for
InitBlobGet ==
    /\ index = indexCreate
    /\ last = NoCall
    /\ FsQuiet
    /\ ManQuiet
    /\ bput = NoBlobPut
    /\ \E blobLen \in 1..MaxBlobLen, ranges \in BOOLEAN :
         \E cut \in 0..blobLen, target \in BlobTargets(blobLen) :
            bget = [NoBlobGet EXCEPT !.rrs = BlobGetEntries(blobLen, cut, ranges),
                                     !.repo = target.repo,
                                     !.d = target.d]

\* br, err := rc.BlobGet(ctx, ref, d, nil)
DoBlobGet ==
    /\ bget.pc = "idle"
    /\ bget' = BlobGet(bget, bget.repo, bget.d)
    /\ UNCHANGED <<idxVars, fsVars, manVars, bput>>

\* one Read of ioutil.ReadAll(br), which hands over between one and BufLen
\* bytes
DoBlobRead(k) ==
    /\ bget.pc = "reading"
    /\ bget' = blobRead(bget, k)
    /\ UNCHANGED <<idxVars, fsVars, manVars, bput>>

NextBlobGet ==
    \/ DoBlobGet
    \/ \E k \in 1..BufLen : DoBlobRead(k)

\* a blob read from a registry; the caller reads until the reader ends
SpecBlobGet == InitBlobGet /\ [][NextBlobGet]_vars /\ WF_vars(NextBlobGet)

\* the registry holds nothing of the blob; BlobPut was not called yet
InitBlobPut ==
    /\ index = indexCreate
    /\ last = NoCall
    /\ FsQuiet
    /\ ManQuiet
    /\ bget = NoBlobGet
    /\ \E blobLen \in 1..MaxBlobLen, blobChunk \in 1..MaxBlobLen :
         \E failAt \in 0..NumChunks(blobLen, blobChunk),
            fails \in 1..MaxRetries,
            maxPut \in {blobChunk, MaxBlobLen} :
            /\ failAt = 0 => fails = 1
            /\ bput = [NoBlobPut EXCEPT
                           !.rrs = BlobPutEntries(blobLen, blobChunk, failAt, fails),
                           !.blob = newRandomBlob(blobLen),
                           !.d = FromBytes(newRandomBlob(blobLen)),
                           !.chunkSize = blobChunk,
                           !.maxPut = maxPut]

\* dp, clp, err := rc.BlobPut(ctx, ref, d2, br, "", int64(len(blob2))): the
\* POST
DoBlobPutStart ==
    /\ bput.pc = "idle"
    /\ bput' = blobPutStart(bput, blobRepo)
    /\ UNCHANGED <<idxVars, fsVars, manVars, bget>>

\* BlobPut goes on: one attempt to send the blob in one PUT
DoBlobPutUploadFull ==
    /\ bput.pc = "full"
    /\ bput' = blobPutUploadFull(bput)
    /\ UNCHANGED <<idxVars, fsVars, manVars, bget>>

\* BlobPut goes on: one PATCH
DoBlobPutUploadChunked ==
    /\ bput.pc = "chunked"
    /\ bput' = blobPutUploadChunked(bput)
    /\ UNCHANGED <<idxVars, fsVars, manVars, bget>>

\* BlobPut goes on: the closing PUT, and the return
DoBlobPutClose ==
    /\ bput.pc = "closing"
    /\ bput' = blobPutClose(bput)
    /\ UNCHANGED <<idxVars, fsVars, manVars, bget>>

NextBlobPut ==
    \/ DoBlobPutStart
    \/ DoBlobPutUploadFull
    \/ DoBlobPutUploadChunked
    \/ DoBlobPutClose

\* a blob written to a registry; BlobPut runs until it returns
SpecBlobPut == InitBlobPut /\ [][NextBlobPut]_vars /\ WF_vars(NextBlobPut)


\* ------------------------------------------------------------------------
\* Claims about the index (C1 - C6)
\* ------------------------------------------------------------------------

\* rows of an index whose ref-name annotation is the tag
RowsTagged(manifests, tag) ==
    {i \in 1..Len(manifests) : HasRefName(manifests[i]) /\ RefName(manifests[i]) = tag}

\* rows of an index with the digest
RowsWithDigest(manifests, digest) ==
    {i \in 1..Len(manifests) : manifests[i].Digest = digest}

Lowest(S) == CHOOSE i \in S : \A j \in S : i <= j

\* C1 as stated: after indexSet(index, R, d) through any reference R that
\* carries a tag, indexGet(index, R) succeeds and returns a descriptor with
\* d's digest.
C1_PutThenGetEveryRef ==
    (last.op = "indexSet" /\ last.r.Tag # "")
        => LET got == indexGet(index, last.r)
           IN  got.err = "nil" /\ got.desc.Digest = last.d.Digest

\* C1 amended: after indexSet(index, R, d) through a reference R that carries
\* a tag and either no digest or d's own digest, indexGet(index, R) succeeds
\* and returns a descriptor with d's digest.
C1_PutThenGet ==
    (last.op = "indexSet" /\ last.r.Tag # "" /\ last.r.Digest \in {"", last.d.Digest})
        => LET got == indexGet(index, last.r)
           IN  got.err = "nil" /\ got.desc.Digest = last.d.Digest

\* a tag-only write that rebinds a tag which named another digest
C1_Witness ==
    /\ last.op = "indexSet" /\ last.r.Tag # "" /\ last.r.Digest = ""
    /\ \E i \in RowsTagged(last.pre, last.r.Tag) : last.pre[i].Digest # last.d.Digest
    /\ indexGet(index, last.r).desc.Digest = last.d.Digest

\* C2: after indexSet through a reference with a non-empty tag T, exactly one
\* row of the index is annotated T, and that row has d's digest.
C2_ExactlyOneTagged ==
    (last.op = "indexSet" /\ last.r.Tag # "")
        => LET rows == RowsTagged(index, last.r.Tag)
           IN  /\ Cardinality(rows) = 1
               /\ \A i \in rows : index[i].Digest = last.d.Digest

\* the index held several rows annotated T and an untagged row with d's
\* digest before the write
C2_Witness ==
    /\ last.op = "indexSet" /\ last.r.Tag # ""
    /\ Cardinality(RowsTagged(last.pre, last.r.Tag)) >= 2
    /\ \E i \in RowsWithDigest(last.pre, last.d.Digest) : ~HasRefName(last.pre[i])
    /\ Cardinality(RowsTagged(index, last.r.Tag)) = 1

\* C3: in an index that started as indexCreate(), no two rows carry the same
\* ref-name annotation, whatever indexSet calls were made.
C3_TagsUnique ==
    \A i, j \in 1..Len(index) :
        (i # j /\ HasRefName(index[i]) /\ HasRefName(index[j]))
            => RefName(index[i]) # RefName(index[j])

\* C4: an indexSet(R, d) that directly follows the same indexSet(R, d) leaves
\* the index as it was: no row added, none changed.
C4_Idempotent ==
    (last.op = "indexSet" /\ last.again) => index = last.pre

\* a tagged write repeated on an index of several rows
C4_Witness ==
    /\ last.op = "indexSet" /\ last.again
    /\ last.r.Tag # "" /\ Len(index) >= 2 /\ index = last.pre

\* the sameness rule of the data model: (a) equal digests and the row has no
\* tag annotation, or (b) both carry the same tag annotation
SameEntry(im, d) ==
    \/ im.Digest = d.Digest /\ ~HasRefName(im)
    \/ HasRefName(im) /\ HasRefName(d) /\ RefName(im) = RefName(d)

\* what the sameness rule makes of a write of d: the first same row is
\* replaced, later same rows are removed, every other row stays in order
RECURSIVE DropSame(_, _)
DropSame(manifests, d) ==
    IF manifests = << >> THEN << >>
    ELSE IF SameEntry(Head(manifests), d) THEN DropSame(Tail(manifests), d)
    ELSE <<Head(manifests)>> \o DropSame(Tail(manifests), d)

WrittenBySameness(manifests, d) ==
    LET same == {i \in 1..Len(manifests) : SameEntry(manifests[i], d)}
    IN  IF same = {} THEN Append(manifests, d)
        ELSE LET pos == Lowest(same)
             IN  SubSeq(manifests, 1, pos - 1) \o <<d>>
                     \o DropSame(SubSeq(manifests, pos + 1, Len(manifests)), d)

\* C5: indexSet replaces or removes exactly the rows that are the same as
\* the descriptor written, and keeps every other row unchanged and in order;
\* a write through a digest-only reference leaves a tagged row with the same
\* digest alone.
C5_SamenessRule ==
    (last.op = "indexSet")
        => index = WrittenBySameness(last.pre, SetRefName(last.r, last.d))

\* C6: indexGet returns the first row with the reference's digest when it has
\* one (whatever its tag), else the first row annotated with its tag, with
\* "latest" for a reference that has neither; ErrNotFound when no row
\* matches; and the index is unchanged.
C6_ResolveOrder ==
    (last.op = "indexGet")
        => LET r    == last.r
               tag  == IF r.Tag = "" THEN "latest" ELSE r.Tag
               hits == IF r.Digest # "" THEN RowsWithDigest(index, r.Digest)
                       ELSE RowsTagged(index, tag)
           IN  /\ index = last.pre
               /\ hits = {} => last.res = [desc |-> ZeroDescriptor, err |-> "ErrNotFound"]
               /\ hits # {} => last.res = [desc |-> index[Lowest(hits)], err |-> "nil"]

\* a reference with tag and digest, where an earlier row carries the tag and
\* a later row the digest: the later row is returned
C6_Witness ==
    /\ last.op = "indexGet" /\ last.r.Tag # "" /\ last.r.Digest # ""
    /\ last.res.err = "nil"
    /\ \E i \in RowsTagged(index, last.r.Tag) :
          /\ index[i].Digest # last.r.Digest
          /\ i < Lowest(RowsWithDigest(index, last.r.Digest))
    /\ \E j \in 1..Len(index) : ~HasRefName(index[j]) /\ index[j] = last.res.desc

\* ------------------------------------------------------------------------
\* Claims about the files of a layout (C7 - C9)
\* ------------------------------------------------------------------------

\* oci-layout is a file that declares version 1.0.0
LayoutIsValid(f) == f.kind = "file" /\ f.data = MarshalLayout("1.0.0")

\* index.json is a file that holds an index
IndexIsWellFormed(f) == f.kind = "file" /\ Len(f.data) = 3

\* goroutine p is the only one that was started
Alone(p) == \A q \in Procs \ {p} : pc[q] = "idle"

\* no goroutine other than p writes the files
OnlyReaders(p) == \A q \in Procs \ {p} : call[q].op \in {"none", "readIndex"}

\* C7 as stated: every operation on a layout whose oci-layout is missing,
\* unreadable, unparsable or of another version fails with InvalidLayout and
\* returns no index content.
C7_EveryOperationValidates ==
    \A p \in Procs :
        (pc[p] = "done" /\ Alone(p) /\ ~LayoutIsValid(disk0.layout))
            => (res[p].err \in InvalidLayout /\ res[p].index = << >>)

\* C7 amended: every readIndex on a layout whose oci-layout is missing,
\* unreadable, unparsable or of another version fails with InvalidLayout and
\* returns the zero index, also when index.json is well-formed (writeIndex
\* does not validate: it creates or replaces oci-layout).
C7_ReadValidates ==
    \A p \in Procs :
        (call[p].op = "readIndex" /\ pc[p] = "done" /\ OnlyReaders(p)
         /\ ~LayoutIsValid(disk0.layout))
            => (res[p].err \in InvalidLayout /\ res[p].index = << >>)

\* a readIndex that met an oci-layout of another version beside a well-formed
\* index.json with a row in it
C7_Witness ==
    \E p \in Procs :
        /\ call[p].op = "readIndex" /\ pc[p] = "done" /\ OnlyReaders(p)
        /\ disk0.layout = File(MarshalLayout("0.9.0"))
        /\ IndexIsWellFormed(disk0.index) /\ disk0.index.data[2] # << >>
        /\ res[p] = [err |-> "unsupported oci layout version", index |-> << >>]

\* C8: a readIndex that runs while another goroutine runs writeIndex on the
\* same (valid) layout returns the complete index of before the write or the
\* complete index written, under every interleaving.
C8_NoTornRead ==
    \A p, q \in Procs :
        (/\ p # q
         /\ call[p].op = "readIndex" /\ pc[p] = "done"
         /\ call[q].op = "writeIndex"
         /\ LayoutIsValid(disk0.layout) /\ IndexIsWellFormed(disk0.index))
            => res[p] \in {[err |-> "nil", index |-> disk0.index.data[2]],
                           [err |-> "nil", index |-> call[q].i]}

\* C9: when two goroutines have each updated the index (readIndex, indexSet,
\* writeIndex) with different tags and both returned without error,
\* index.json holds a row for each tag.
C9_NoLostUpdate ==
    \A p, q \in Procs :
        (/\ p # q
         /\ call[p].op = "update" /\ call[q].op = "update"
         /\ call[p].r.Tag # call[q].r.Tag
         /\ pc[p] = "done" /\ pc[q] = "done"
         /\ res[p].err = "nil" /\ res[q].err = "nil")
            => /\ IndexIsWellFormed(indexFile)
               /\ RowsTagged(indexFile.data[2], call[p].r.Tag) # {}
               /\ RowsTagged(indexFile.data[2], call[q].r.Tag) # {}

\* ------------------------------------------------------------------------
\* Claims about manifests (C10)
\* ------------------------------------------------------------------------

\* GetDigest: the digest a manifest has stored
StoredDigest(m) == IF m.type = "regclient.manifest" THEN m.digest ELSE m.desc.Digest

\* C10: whenever MarshalJSON succeeds on a manifest (one that SetOrig
\* populated or ManifestGet returned), the digest stored in the manifest is
\* the digest of exactly the bytes MarshalJSON returns, and the size recorded
\* in its descriptor is their length.
C10_DigestOfMarshalledBytes ==
    LET out == MarshalJSON(man)
    IN  out.err = "nil"
            => /\ StoredDigest(man) = FromBytes(out.bytes)
               /\ man.type # "regclient.manifest" => man.desc.Size = BodyLen(out.bytes)

\* a manifest fetched with a body that is not in compact form and a
\* Docker-Content-Digest header naming other bytes
C10_Witness ==
    /\ mlast.op = "ManifestGet" /\ mlast.err = "nil"
    /\ mlast.resp.body.pad = 1
    /\ mlast.resp.dockerContentDigest = FromBytes(GarbageBody)
    /\ man.origByte = mlast.resp.body
    /\ MarshalJSON(man).err = "nil"


\* ------------------------------------------------------------------------
\* Claims about manifests (C11 - C18)
\* ------------------------------------------------------------------------

\* the raw bytes a manifest holds, and its media type
RawBytes(m) == IF m.type = "regclient.manifest" THEN m.origByte ELSE m.rawBody

\* a registry that serves the bytes b under media type mt
Serve(mt, b) ==
    [transport |-> "ok", status |-> 200, contentType |-> mt, body |-> b,
     dockerContentDigest |-> NoDigest]

\* C11: a populated manifest that holds raw bytes marshals to exactly those
\* bytes, and parsing them under the manifest's media type gives a manifest
\* with the same digest.
C11_RawBytesRoundTrip ==
    (man.manifSet /\ BodyLen(RawBytes(man)) > 0)
        => LET out  == MarshalJSON(man)
               back == ManifestGetResponse(Serve(MediaTypeOf(man), out.bytes))
           IN  /\ out.err = "nil"
               /\ out.bytes = RawBytes(man)
               /\ back.err = "nil"
               /\ StoredDigest(back.m) = StoredDigest(man)

\* a manifest fetched with a body that is not in the compact form
\* json.Marshal would write, marshalled back with its white space
C11_Witness ==
    /\ mlast.op = "ManifestGet" /\ mlast.err = "nil"
    /\ man.manifSet /\ man.origByte.pad = 1
    /\ MarshalJSON(man).bytes.pad = 1
    /\ MarshalJSON(man).bytes # MarshalManifest(man.dockerM)
    /\ MarshalJSON(man).bytes # MarshalManifestList(man.dockerML)

\* func (m *manifest) IsList() bool, and the two list types of docker2.go
IsListVariant(m) ==
    IF m.type = "regclient.manifest"
    THEN m.mt \in {MediaTypeDocker2ManifestList, MediaTypeOCI1ManifestList}
    ELSE m.type = "docker2ManifestList"
IsImageVariant(m) ==
    IF m.type = "regclient.manifest"
    THEN m.mt \in {MediaTypeDocker2Manifest, MediaTypeOCI1Manifest}
    ELSE m.type = "docker2Manifest"

\* the structured fields of a manifest
ConfigOf(m) ==
    IF m.type # "regclient.manifest" THEN m.Manifest.Config
    ELSE IF m.mt = MediaTypeDocker2Manifest THEN m.dockerM.Config ELSE m.ociM.Config
LayersOf(m) ==
    IF m.type # "regclient.manifest" THEN m.Manifest.Layers
    ELSE IF m.mt = MediaTypeDocker2Manifest THEN m.dockerM.Layers ELSE m.ociM.Layers
EntriesOf(m) ==
    IF m.type # "regclient.manifest" THEN m.ManifestList.Manifests
    ELSE IF m.mt = MediaTypeDocker2ManifestList THEN m.dockerML.Manifests
    ELSE m.ociML.Manifests

\* the digests of a list of descriptors
RECURSIVE DigestsOf(_)
DigestsOf(dl) ==
    IF dl = << >> THEN << >> ELSE <<Head(dl).Digest>> \o DigestsOf(Tail(dl))

MatchingEntries(m, p) ==
    {i \in 1..Len(EntriesOf(m)) :
        LET e == EntriesOf(m)[i]
        IN  /\ e.Platform # NilPlatform
            /\ IF m.type = "regclient.manifest" THEN Match(p, e.Platform[1])
               ELSE e.Platform[1] = p}

\* C13: a platform lookup on a list variant none of whose entries matches the
\* platform returns ErrNotFound, and ErrUnsupportedMediaType is returned only
\* by a manifest that is not a list variant.
C13_NoMatchIsNotFound ==
    acc.op = "GetPlatformDesc"
        => /\ (IsListVariant(man) /\ MatchingEntries(man, acc.p) = {})
                  => acc.res = AccErr("ErrNotFound")
           /\ acc.res.err = "ErrUnsupportedMediaType" => ~IsListVariant(man)

C16_DeleteNeedsDigest ==
    mdel.op = "ManifestDelete"
        => /\ mdel.ref.Digest = ""
                  => (mdel.err = "ErrMissingDigest" /\ mdel.reqs = << >>)
           /\ mdel.ref.Digest # ""
                  => /\ mdel.err # "ErrMissingDigest"
                     /\ Len(mdel.reqs) = 1
                     /\ mdel.reqs[1].method = "DELETE"
                     /\ mdel.reqs[1].path
                            = <<"v2", mdel.ref.Repository, "manifests", mdel.ref.Digest>>

\* a delete through a reference that has a tag and no digest
C16_Witness ==
    /\ mdel.op = "ManifestDelete"
    /\ mdel.ref.Tag = "latest" /\ mdel.ref.Digest = ""
    /\ mdel.err = "ErrMissingDigest" /\ mdel.reqs = << >>

\* a fetch whose response arrived with status 200 and a body that was read
Fetched ==
    /\ mlast.op = "ManifestGet"
    /\ mlast.resp.transport = "ok" /\ mlast.resp.status = 200

\* C17: a ManifestGet whose response carries a Docker-Content-Digest header
\* that differs from the digest computed over the body fails and returns no
\* manifest.
C17_HeaderMismatchFails ==
    (/\ Fetched
     /\ mlast.resp.dockerContentDigest # NoDigest
     /\ mlast.resp.dockerContentDigest # FromBytes(mlast.resp.body))
        => (mlast.err # "nil" /\ man = ZeroRegManifest)

\* C18: a ManifestGet whose response has a media type that is not one of the
\* four supported types fails with ErrUnsupportedMediaType and returns no
\* manifest, and so does a SetOrig given a value of the wrong type, which
\* leaves the manifest unpopulated.
C18_UnknownTypeUnsupported ==
    /\ (Fetched /\ mlast.resp.contentType \notin AcceptManifests)
           => (mlast.err = "ErrUnsupportedMediaType" /\ man = ZeroRegManifest)
    /\ (mlast.op = "SetOrig" /\ mlast.err # "nil")
           => mlast.err = "ErrUnsupportedMediaType"

\* ------------------------------------------------------------------------
\* Claims about blobs (C19 - C20)
\* ------------------------------------------------------------------------

\* the registry advertises Accept-Ranges: bytes for the blob asked for
Advertised(b) ==
    /\ b.rrs # << >>
    /\ \E i \in 1..Len(b.rrs) : /\ b.rrs[i].ReqEntry.Method = "HEAD"
                                /\ b.rrs[i].ReqEntry.Path = BlobPath(b.repo, b.d)
                                /\ b.rrs[i].RespEntry.Headers.AcceptRanges = "bytes"

IsPrefix(s, t) == Len(s) <= Len(t) /\ s = SubSeq(t, 1, Len(s))

\* the j-th time a body ended early, the GET that followed carries a Range
\* header that starts at the number of bytes received until then
ResumedAt(b, j) ==
    LET x == b.reqs[2 * j + 1]
    IN  /\ x.req.Method = "GET"
        /\ x.req.Headers.Range # << >>
        /\ x.req.Headers.Range[1] = b.short[j]
        /\ b.short[j] <= Len(b.got)
        /\ \A i \in 1..(j - 1) : b.short[i] < b.short[j]

Target(req) == [path |-> req.Path, chunk |-> req.Query.chunk]

\* the Location of the last answer before the i-th exchange that had one
RECURSIVE LocationBefore(_, _)
LocationBefore(h, i) ==
    IF i <= 1 THEN NoTarget
    ELSE IF h[i - 1].resp.Status = 202
    THEN ResolveLocation(h[i - 1].req.Path, h[i - 1].resp.Headers.Location)
    ELSE LocationBefore(h, i - 1)

\* where the last chunk accepted before the i-th exchange ended
RECURSIVE AcceptedBefore(_, _)
AcceptedBefore(h, i) ==
    IF i <= 1 THEN 0
    ELSE IF h[i - 1].req.Method = "PATCH" /\ h[i - 1].resp.Status = 202
    THEN h[i - 1].req.Headers.ContentRange[2]
    ELSE AcceptedBefore(h, i - 1)

\* the PUT that closes an upload
IsClose(req) == req.Method = "PUT" /\ req.Headers.ContentLength = <<0>>

\* the i-th exchange is a PATCH that continues the upload
PatchContinues(h, blob, i) ==
    LET req == h[i].req
        range == req.Headers.ContentRange
    IN  /\ Target(req) = LocationBefore(h, i)
        /\ range # << >>
        /\ range[1] = AcceptedBefore(h, i)
        /\ range[2] > range[1]
        /\ req.Body = Slice(blob, range[1], range[2])
        /\ (h[i - 1].req.Method = "PATCH" /\ h[i - 1].resp.Status = 504)
              => req = h[i - 1].req

\* C20: in a chunked BlobPut every PATCH goes to the Location of the last
\* answer that named one, with a Content-Range that starts where the last
\* accepted chunk ended; after a PATCH that failed with 504 the same request
\* is sent again; the upload is closed by a PUT without body to the last
\* Location with the digest of the blob, after all of the blob was accepted;
\* BlobPut never fails, it returns, and it returns the digest and the length
\* of the blob
C20_ChunkedUploadRetry ==
    /\ [](LET h == bput.reqs
              blob == bput.blob
          IN  /\ \A i \in 1..Len(h) :
                    h[i].req.Method = "PATCH" => PatchContinues(h, blob, i)
              /\ \A i \in 1..Len(h) :
                    IsClose(h[i].req) =>
                        /\ Target(h[i].req) = LocationBefore(h, i)
                        /\ AcceptedBefore(h, i) = Len(blob)
                        /\ h[i].req.Query.digest = FromBytes(blob)
                        /\ h[i].req.Body = << >>
                        /\ i = Len(h)
              /\ bput.pc # "failed"
              /\ bput.pc = "done" =>
                    /\ IsClose(h[Len(h)].req)
                    /\ bput.res = [d |-> FromBytes(blob), n |-> Len(blob), err |-> "nil"])
    /\ ((bput.pc = "chunked") ~> (bput.pc = "done"))

\* an upload in several chunks of which a later one failed with 504, was sent
\* again as it was and accepted, and which was closed
C20_Witness ==
    /\ bput.pc = "done"
    /\ bput.res.d = FromBytes(bput.blob)
    /\ \E i \in 2..(Len(bput.reqs) - 1) :
          /\ bput.reqs[i].req.Method = "PATCH"
          /\ bput.reqs[i].resp.Status = 504
          /\ bput.reqs[i].req.Headers.ContentRange[1] > 0
          /\ bput.reqs[i + 1].req = bput.reqs[i].req
          /\ bput.reqs[i + 1].resp.Status = 202

\* ------------------------------------------------------------------------
\* Claims about calls on a registry (C21 - C23)
\* ------------------------------------------------------------------------

\* the last call sent exactly one request, of this method and for this
\* identifier of the reference
SentFor(method, id) ==
    /\ Len(mdel.reqs) = 1
    /\ mdel.reqs[1].method = method
    /\ mdel.reqs[1].path = <<"v2", mdel.ref.Repository, "manifests", id>>

\* C22: for a reference with a tag and a digest ManifestGet and ManifestHead
\* ask for /v2/<repo>/manifests/<digest> and ManifestPut, when it sends its
\* manifest, sends it to /v2/<repo>/manifests/<tag>; for a reference with
\* neither ManifestGet and ManifestHead fail with ErrMissingTagOrDigest and
\* ManifestPut with ErrMissingTag, and no request is sent
C22_IdentifierSelection ==
    /\ (mdel.op = "ManifestGet" /\ mdel.ref.Tag # "" /\ mdel.ref.Digest # "")
           => SentFor("GET", mdel.ref.Digest)
    /\ (mdel.op = "ManifestHead" /\ mdel.ref.Tag # "" /\ mdel.ref.Digest # "")
           => SentFor("HEAD", mdel.ref.Digest)
    /\ (mdel.op = "ManifestPut" /\ mdel.ref.Tag # "" /\ mdel.ref.Digest # ""
           /\ MarshalJSON(man).err = "nil")
           => SentFor("PUT", mdel.ref.Tag)
    /\ (mdel.op \in {"ManifestGet", "ManifestHead"} /\ mdel.ref.Tag = ""
           /\ mdel.ref.Digest = "")
           => (mdel.err = "ErrMissingTagOrDigest" /\ mdel.reqs = << >>)
    /\ (mdel.op = "ManifestPut" /\ mdel.ref.Tag = "" /\ mdel.ref.Digest = "")
           => (mdel.err = "ErrMissingTag" /\ mdel.reqs = << >>)

\* a manifest fetched by digest through a reference that has both, and then
\* pushed by tag through it
C22_Witness ==
    /\ mdel.op = "ManifestPut"
    /\ mdel.ref.Tag = "v1" /\ mdel.ref.Digest = "sha256:d1"
    /\ mlast.op = "ManifestGet" /\ mlast.err = "nil"
    /\ SentFor("PUT", "v1")
    /\ mdel.err = "nil"

\* C23: the manifest ManifestHead returns has its media type and its digest
\* from the headers and is not populated; MarshalJSON on it fails with
\* ErrUnavailable, and ManifestPut of it sends no request and, through a
\* reference that has a tag or a digest, returns that error
C23_HeadManifestUnavailable ==
    (mlast.op = "ManifestHead" /\ mlast.err = "nil") =>
        /\ man.mt = mlast.resp.contentType
        /\ man.digest = mlast.resp.dockerContentDigest
        /\ man.digest # NoDigest
        /\ ~man.manifSet
        /\ acc.op = "MarshalJSON" => acc.res.err = "ErrUnavailable"
        /\ mdel.op = "ManifestPut" => mdel.reqs = << >>
        /\ (mdel.op = "ManifestPut" /\ (mdel.ref.Tag # "" \/ mdel.ref.Digest # ""))
              => mdel.err = "ErrUnavailable"

\* the manifest of a ManifestHead was marshalled and then pushed by tag
C23_Witness ==
    /\ mlast.op = "ManifestHead" /\ mlast.err = "nil"
    /\ man.mt = MediaTypeDocker2Manifest
    /\ acc.op = "MarshalJSON" /\ acc.res.err = "ErrUnavailable"
    /\ mdel.op = "ManifestPut" /\ mdel.ref.Tag = "v1"
    /\ mdel.err = "ErrUnavailable" /\ mdel.reqs = << >>

\* BlobGet returned an error and no reader: nothing can be read, nothing was
\* read, and the one request was not sent again
NoReader(b) ==
    /\ b.pc = "failed"
    /\ b.body = << >>
    /\ b.got = << >>
    /\ b.readCur = 0
    /\ Len(b.reqs) = 1

====
